---- MODULE Spec2Model ----
(***************************************************************************)
(* Model of the obsidian-ai-task-picker plugin: the command run            *)
(* (editorCallback), the indexed task collector, the block-id              *)
(* synchronizer, the direct-scan collector, the ranking adapter and the    *)
(* cursor-anchored insertion.                                              *)
(*                                                                         *)
(* A JavaScript string is a sequence of one-character strings, so that     *)
(* trimming, splitting, joining and the regular expressions of the source  *)
(* are computed and not assumed.                                           *)
(***************************************************************************)
EXTENDS Integers, Sequences, FiniteSets, TLC

\* ------------------------------------------------------------------ bounds

\* Number of distinct suffixes Math.random().toString(36).slice(2, 8) can draw.
NumSuffix == 2
\* Largest number of records the task-indexing service returns.
MaxTasks == 2
\* Largest number of ids in a ranking response.
MaxRanked == 2
\* Largest number of edits the environment makes to the editor in one run.
MaxEdits == 1
\* Largest number of synchronizer calls of the stand-alone driver.
MaxCalls == 2
\* Largest number of lines of a document handed to the priority extractor.
MaxLines == 4
\* Largest length of a string handed to normalizeBlockId alone.
MaxChars == 3
\* Largest number of times the executing run changes while two runs overlap.
MaxSwitches == 3

\* --------------------------------------------------------------- constants

\* setTimeout interval of the index poll, in ms.
PollInterval == 100
\* timeout of the poll for a token found on the line, in ms.
ReuseTimeout == 1000
\* timeout of the poll for a generated token, in ms.
GenerateTimeout == 2000

\* -------------------------------------------------------------- characters

NL == "\n"
CR == "\r"
SP == " "
TAB == "\t"

Lower == {"a","b","c","d","e","f","g","h","i","j","k","l","m",
          "n","o","p","q","r","s","t","u","v","w","x","y","z"}
Upper == {"A","B","C","D","E","F","G","H","I","J","K","L","M",
          "N","O","P","Q","R","S","T","U","V","W","X","Y","Z"}
Digit == {"0","1","2","3","4","5","6","7","8","9"}

\* \s of the regular expressions (the members that occur in the model).
IsSpace(c) == c \in {SP, TAB, NL, CR}

\* [A-Za-z0-9\-_]
IsIdChar(c) == c \in Lower \cup Upper \cup Digit \cup {"-", "_"}

\* The value of an absent (null / undefined) field: a sequence no string equals.
Absent == <<"absent">>

\* A number held by a field that may be absent.
Num(n) == <<"number", n>>

\* ----------------------------------------------------------------- strings

Max(a, b) == IF a >= b THEN a ELSE b
Min(a, b) == IF a <= b THEN a ELSE b

\* s.slice(from) for 1-based from.
From(s, from) == SubSeq(s, from, Len(s))

RECURSIVE TrimStart(_)
TrimStart(s) ==
  IF s # <<>> /\ IsSpace(Head(s)) THEN TrimStart(Tail(s)) ELSE s

RECURSIVE TrimEnd(_)
\* also s.replace(/\s*$/, "")
TrimEnd(s) ==
  IF s # <<>> /\ IsSpace(s[Len(s)]) THEN TrimEnd(SubSeq(s, 1, Len(s) - 1)) ELSE s

Trim(s) == TrimStart(TrimEnd(s))

StartsWith(s, p) == Len(p) <= Len(s) /\ SubSeq(s, 1, Len(p)) = p

EndsWith(s, p) == Len(p) <= Len(s) /\ SubSeq(s, Len(s) - Len(p) + 1, Len(s)) = p

RECURSIVE StripLeading(_, _)
\* removes the longest prefix made of characters of cs
StripLeading(s, cs) ==
  IF s # <<>> /\ Head(s) \in cs THEN StripLeading(Tail(s), cs) ELSE s

RECURSIVE StripTrailing(_, _)
StripTrailing(s, cs) ==
  IF s # <<>> /\ s[Len(s)] \in cs
  THEN StripTrailing(SubSeq(s, 1, Len(s) - 1), cs) ELSE s

RECURSIVE SplitOn(_, _, _)
\* content.split("\n") (crlf = FALSE) and content.split(/\r?\n/) (crlf = TRUE),
\* one line at a time: cur is what precedes s on its first line
SplitOn(s, cur, crlf) ==
  LET breaks == { i \in 1..Len(s) : s[i] = NL }
  IN  IF breaks = {} THEN <<cur \o s>>
      ELSE LET at   == CHOOSE i \in breaks : \A k \in breaks : i <= k
               last == IF crlf /\ at >= 2 /\ s[at - 1] = CR THEN at - 2 ELSE at - 1
           IN  <<cur \o SubSeq(s, 1, last)>> \o SplitOn(From(s, at + 1), <<>>, crlf)

SplitLF(s) == SplitOn(s, <<>>, FALSE)
SplitCRLF(s) == SplitOn(s, <<>>, TRUE)

RECURSIVE Join(_)
\* lines.join("\n")
Join(lines) ==
  IF lines = <<>> THEN <<>>
  ELSE IF Len(lines) = 1 THEN lines[1]
  ELSE lines[1] \o <<NL>> \o Join(Tail(lines))

\* ------------------------------------------------------------------- utils

\* A value that is an object and no string.
AnObject == <<"object">>

DigitSeq == <<"0", "1", "2", "3", "4", "5", "6", "7", "8", "9">>

RECURSIVE Decimal(_)
\* the decimal digits of a natural number
Decimal(n) ==
  IF n < 10 THEN <<DigitSeq[n + 1]>>
  ELSE Decimal(n \div 10) \o <<DigitSeq[(n % 10) + 1]>>

\* value.toString() for a string, a natural number or a plain object
toStringOf(value) ==
  IF Len(value) = 2 /\ value[1] = "number" THEN Decimal(value[2])
  ELSE IF value = AnObject
       THEN <<"[", "o", "b", "j", "e", "c", "t", SP, "O", "b", "j", "e", "c", "t", "]">>
  ELSE value

\* normalizeBlockId with a replace that removes one leading character
normalizeBlockId_singleMarker(raw) ==
  LET str == Trim(toStringOf(IF raw = Absent THEN <<>> ELSE raw))
  IN  Trim(IF str # <<>> /\ Head(str) \in {"^", SP, TAB, NL, CR}
           THEN Tail(str) ELSE str)

\* normalizeBlockId: (raw ?? "").toString().trim().replace(/^(\^|\s)+/, "").trim()
normalizeBlockId(raw) ==
  LET str == toStringOf(IF raw = Absent THEN <<>> ELSE raw)
  IN  Trim(StripLeading(Trim(str), {"^", SP, TAB, NL, CR}))

\* ensureMd: /\.md$/i.test(path) ? path : path + ".md"
ensureMd(path) ==
  IF /\ Len(path) >= 3
     /\ path[Len(path) - 2] = "."
     /\ path[Len(path) - 1] \in {"m", "M"}
     /\ path[Len(path)] \in {"d", "D"}
  THEN path
  ELSE path \o <<".", "m", "d">>

\* --------------------------------------------------------------- block ids

RECURSIVE TrailingIdRun(_)
\* the longest suffix of s made of [A-Za-z0-9\-_]
TrailingIdRun(s) ==
  IF s # <<>> /\ IsIdChar(s[Len(s)])
  THEN Append(TrailingIdRun(SubSeq(s, 1, Len(s) - 1)), s[Len(s)])
  ELSE <<>>

\* line.match(/\^([A-Za-z0-9\-_]+)\s*$/): group 1, or <<>> when there is no
\* match. The group is followed only by white space and preceded by the
\* marker, which is no id character, so it is the longest trailing id run.
blockIdMatch(line) ==
  LET t   == TrimEnd(line)
      run == TrailingIdRun(t)
      pre == Len(t) - Len(run)
  IN  IF run # <<>> /\ pre >= 1 /\ t[pre] = "^" THEN run ELSE <<>>

RECURSIVE existingIdsOf(_)
\* the set of ids found at the end of the lines
existingIdsOf(lines) ==
  IF lines = <<>> THEN {}
  ELSE (IF blockIdMatch(Head(lines)) # <<>> THEN {blockIdMatch(Head(lines))} ELSE {})
       \cup existingIdsOf(Tail(lines))

\* The digits Math.random().toString(36).slice(2, 8) is drawn from; the model
\* draws one-character suffixes from the first NumSuffix of them.
SuffixAlphabet == <<"a", "b", "c", "d", "e", "f", "g", "h">>

\* `t-${Math.random().toString(36).slice(2, 8)}`: every value one draw can give
Candidates == { <<"t", "-", SuffixAlphabet[i]>> : i \in 1..NumSuffix }

\* a draw accepted whatever the document holds
freshCandidates_any(existingIds) == Candidates

\* the draws that `if (!existingIds.has(candidate))` accepts
freshCandidates(existingIds) == Candidates \ existingIds

\* ------------------------------------------------------------ the universe

\* Documents of the vault. FA is the document open in the editor, FB and FC
\* are background documents, FG is a path the task-indexing service still
\* lists after its file was removed.
FA == <<"W", "/", "a", ".", "m", "d">>
FB == <<"W", "/", "b", ".", "m", "d">>
FC == <<"X", "/", "c", ".", "m", "d">>
FG == <<"W", "/", "g", ".", "m", "d">>

Files == {FA, FB, FC}
NoFile == <<>>

TaskP == <<"-", SP, "[", SP, "]", SP, "p">>
TaskQ == <<"-", SP, "[", SP, "]", SP, "q", SP, SP, "^", "t", "-", "a">>
TaskR == <<"-", SP, "[", SP, "]", SP, "r", SP, SP, "^", "t", "-", "a">>
TaskS == <<"-", SP, "[", SP, "]", SP, "s">>
HeadP == <<"#", SP, "P">>
BodyX == <<"x">>

\* stored text of the documents when the command is invoked
ContentA == Join(<<HeadP, BodyX, TaskS>>)
ContentB == Join(<<TaskP \o <<SP>>, TaskQ>>)
ContentC == Join(<<TaskR>>)

\* ------------------------------------------------------------------- state

VARIABLES
  vault,          \* stored text of every document, by path (app.vault)
  cache,          \* anchor ids the background index lists, by path (metadataCache)
  activeFile,     \* path of the document bound to the editor, or NoFile
  editorText,     \* text of the editor (editor.getValue())
  cursor,         \* the editor's cursor, [line, ch]
  edits,          \* number of edits the environment made to the editor
  settings,       \* [folders, openaiApiKey]
  tasksApi,       \* whether a task-indexing service with a known API is installed
  allTasks,       \* the records getAllTasks() answers with
  pc,             \* position of the command run
  savedCursor,    \* const savedCursor
  initialContent, \* const initialContent
  taskCount,      \* const taskCount
  queue,          \* open tasks the collector has still to process
  taskItems,      \* const taskItems of the collector, then const tasks of the run
  sync,           \* frame of ensureBlockIdInBackgroundFile
  priorities,     \* const priorities
  response,       \* const response of callOpenAIRank: [ok, errorText, content]
  rankedIds,      \* const rankedIds
  taskEmbeds,     \* const taskEmbeds, as [note, id]
  notices,        \* every Notice shown, in order
  modifyLog,      \* every vault.modify call, in order: [path, content]
  readLog,        \* every vault.read call, in order: the path
  queried,        \* whether getAllTasks() was called
  fetches,        \* number of requests sent to the ranking service
  inserts,        \* every editor.replaceRange call, in order, with the text,
                  \* the cursor and the index it was made on
  thrown,         \* messages of the exceptions raised, in order
  calls,          \* number of calls a stand-alone driver made
  results,        \* what those calls returned, in order
  scan,           \* frame of collectAllOpenTasksDirect
  second          \* frame of a second run of the command, parked while the other run executes

vars == <<vault, cache, activeFile, editorText, cursor, edits, settings,
          tasksApi, allTasks, pc, savedCursor, initialContent, taskCount,
          queue, taskItems, sync, priorities, response, rankedIds, taskEmbeds, notices,
          modifyLog, readLog, queried, fetches, inserts, thrown, calls, results,
          scan, second>>

envVars == <<vault, cache, activeFile, editorText, cursor, edits>>
cfgVars == <<settings, tasksApi, allTasks>>
runVars == <<pc, savedCursor, initialContent, taskCount, queue, taskItems,
             priorities, response, rankedIds, taskEmbeds, notices, queried, fetches,
             inserts, thrown>>
drvVars == <<calls, results, scan, second>>

\* A task record of the task-indexing service. A flag the record lacks is
\* FALSE; `status` is the status string (the status itself, or the name or
\* type of a status object), statusDone and statusIsDone are the flags of a
\* status object.
Rec(path, line, blockLink, done) ==
  [path |-> path, line |-> line, blockLink |-> blockLink, done |-> done,
   completed |-> FALSE, isDone |-> FALSE, statusDone |-> FALSE,
   statusIsDone |-> FALSE, doneDate |-> Absent, completedDate |-> Absent,
   completionDate |-> Absent, status |-> <<>>]

\* app.vault.getAbstractFileByPath(path) instanceof TFile
isTFile(path) == path \in DOMAIN vault

\* --------------------------------------------------- block-id synchronizer

SyncIdle ==
  [pc |-> "idle", path |-> NoFile, lineNumber |-> 0, token |-> <<>>,
   pending |-> <<>>, elapsed |-> 0, timeout |-> 0, via |-> "", err |-> ""]

\* return of ensureBlockIdInBackgroundFile
SyncReturn(token, via) ==
  [SyncIdle EXCEPT !.pc = "ret", !.token = token, !.via = via]

\* ensureBlockIdInBackgroundFile up to `await app.vault.read(file)`, with the
\* active-file guard left out
ensureBegin_noGuard(task, active) ==
  LET path     == IF task.path = Absent THEN <<>> ELSE task.path
      rawLine  == task.line
      existing == normalizeBlockId(task.blockLink)
  IN  IF existing # <<>>
      THEN /\ sync' = SyncReturn(existing, "existing")
           /\ UNCHANGED readLog
      ELSE IF path = <<>> \/ rawLine = Absent \/ ~isTFile(path)
      THEN /\ \E c \in Candidates : sync' = SyncReturn(c, "random")
           /\ UNCHANGED readLog
      ELSE /\ sync' = [SyncIdle EXCEPT !.pc = "read", !.path = path,
                                       !.lineNumber = Max(0, rawLine[2])]
           /\ readLog' = Append(readLog, path)

\* ensureBlockIdInBackgroundFile up to `await app.vault.read(file)`
ensureBegin(task, active) ==
  LET path     == IF task.path = Absent THEN <<>> ELSE task.path
      rawLine  == task.line
      existing == normalizeBlockId(task.blockLink)
  IN  IF existing # <<>>
      THEN /\ sync' = SyncReturn(existing, "existing")
           /\ UNCHANGED readLog
      ELSE IF path = <<>> \/ rawLine = Absent
      THEN /\ \E c \in Candidates : sync' = SyncReturn(c, "random")
           /\ UNCHANGED readLog
      ELSE IF ~isTFile(path)
      THEN /\ \E c \in Candidates : sync' = SyncReturn(c, "random")
           /\ UNCHANGED readLog
      ELSE IF active # NoFile /\ path = active
      THEN /\ \E c \in Candidates : sync' = SyncReturn(c, "random")
           /\ UNCHANGED readLog
      ELSE /\ sync' = [SyncIdle EXCEPT !.pc = "read", !.path = path,
                                       !.lineNumber = Max(0, rawLine[2])]
           /\ readLog' = Append(readLog, path)

\* lines[lineIndex] = currentLine.replace(/\s*$/, "") + "  ^" + generatedId
appendToken(currentLine, generatedId) ==
  TrimEnd(currentLine) \o <<SP, SP, "^">> \o generatedId

\* vault.read resolves and a token is generated and written whether or not
\* the line already carries one
SyncRead_alwaysGenerates ==
  /\ sync.pc = "read"
  /\ sync.path \in DOMAIN vault
  /\ LET content     == vault[sync.path]
         lines       == SplitCRLF(content)
         lineIndex   == Min(Max(0, sync.lineNumber), Max(0, Len(lines) - 1))
         currentLine == lines[lineIndex + 1]
         existingIds == existingIdsOf(lines)
     IN  \E candidate \in freshCandidates(existingIds) :
           sync' = [sync EXCEPT
             !.pc = "write", !.token = candidate, !.via = "generated",
             !.pending = Join([lines EXCEPT ![lineIndex + 1] =
                                 appendToken(currentLine, candidate)])]
  /\ UNCHANGED <<envVars, cfgVars, runVars, drvVars, modifyLog, readLog>>

\* vault.read resolves: the code from `content.split` to the next await, which
\* is the index poll for a token found on the line, or vault.modify. `lines`
\* and `existingIds` are computed once, as the constants of the code are.
SyncRead ==
  /\ sync.pc = "read"
  /\ sync.path \in DOMAIN vault
  /\ \E lines \in {SplitCRLF(vault[sync.path])} :
     \E existingIds \in {existingIdsOf(lines)} :
     LET lineIndex   == Min(Max(0, sync.lineNumber), Max(0, Len(lines) - 1))
         currentLine == lines[lineIndex + 1]
         existingId  == blockIdMatch(currentLine)
     IN  IF existingId # <<>>
         THEN sync' = [sync EXCEPT !.pc = "wait", !.token = existingId,
                                   !.via = "line", !.elapsed = 0,
                                   !.timeout = ReuseTimeout]
         ELSE \E candidate \in freshCandidates(existingIds) :
                sync' = [sync EXCEPT
                  !.pc = "write", !.token = candidate, !.via = "generated",
                  !.pending = Join([lines EXCEPT ![lineIndex + 1] =
                                      appendToken(currentLine, candidate)])]
  /\ UNCHANGED <<envVars, cfgVars, runVars, drvVars, modifyLog, readLog>>

\* vault.read or vault.modify rejects
SyncIoFail ==
  /\ sync.pc \in {"read", "write"}
  /\ sync' = [SyncIdle EXCEPT !.pc = "threw", !.err = "io error"]
  /\ UNCHANGED <<envVars, cfgVars, runVars, drvVars, modifyLog, readLog>>

\* the synchronizer returning its token with the write left undone
SyncWrite_notWritten ==
  /\ sync.pc = "write"
  /\ sync' = SyncReturn(sync.token, sync.via)
  /\ UNCHANGED <<envVars, cfgVars, runVars, drvVars, modifyLog, readLog>>

\* a write that reads the document again and appends the token to the line
\* as it is then stored
SyncWrite_merging ==
  /\ sync.pc = "write"
  /\ LET lines     == SplitCRLF(vault[sync.path])
         lineIndex == Min(Max(0, sync.lineNumber), Max(0, Len(lines) - 1))
         merged    == Join([lines EXCEPT ![lineIndex + 1] =
                              appendToken(lines[lineIndex + 1], sync.token)])
     IN  /\ vault' = [vault EXCEPT ![sync.path] = merged]
         /\ modifyLog' = Append(modifyLog, [path |-> sync.path, content |-> merged])
  /\ sync' = [sync EXCEPT !.pc = "wait", !.elapsed = 0,
                          !.timeout = GenerateTimeout]
  /\ UNCHANGED <<cache, activeFile, editorText, cursor, edits, cfgVars,
                 runVars, drvVars, readLog>>

\* vault.modify resolves: the document is written, then the index poll
\* for the generated token starts
SyncWrite ==
  /\ sync.pc = "write"
  /\ vault' = [vault EXCEPT ![sync.path] = sync.pending]
  /\ modifyLog' = Append(modifyLog, [path |-> sync.path, content |-> sync.pending])
  /\ sync' = [sync EXCEPT !.pc = "wait", !.elapsed = 0,
                          !.timeout = GenerateTimeout]
  /\ UNCHANGED <<cache, activeFile, editorText, cursor, edits, cfgVars,
                 runVars, drvVars, readLog>>

\* a poll loop without the deadline: it goes on until the index lists the token
waitForBlockIndexed_untilIndexed ==
  /\ sync.pc = "wait"
  /\ IF normalizeBlockId(sync.token) \in cache[sync.path]
     THEN sync' = SyncReturn(sync.token, sync.via)
     ELSE sync' = [sync EXCEPT !.elapsed = 0]
  /\ UNCHANGED <<envVars, cfgVars, runVars, drvVars, modifyLog, readLog>>

\* one iteration of waitForBlockIndexed's loop: the test of the deadline, the
\* look into the index and the 100 ms sleep
waitForBlockIndexed ==
  /\ sync.pc = "wait"
  /\ IF sync.elapsed < sync.timeout
     THEN IF normalizeBlockId(sync.token) \in cache[sync.path]
          THEN sync' = SyncReturn(sync.token, sync.via)
          ELSE sync' = [sync EXCEPT !.elapsed = sync.elapsed + PollInterval]
     ELSE sync' = SyncReturn(sync.token, sync.via)
  /\ UNCHANGED <<envVars, cfgVars, runVars, drvVars, modifyLog, readLog>>

\* -------------------------------------------------------------- priorities

\* characters that stand for code points outside ASCII
TARGET == "U+1F3AF"
TRASH == "U+1F5D1"
CHECKMARK == "U+2705"
HEAVYCHECK == "U+2714"
BULLET == "U+2022"
ENDASH == "U+2013"
EMDASH == "U+2014"
DQUOTE == "U+0022"
APOS == "U+0027"
BACKTICK == "U+0060"

\* [\p{Emoji_Presentation}\p{Extended_Pictographic}\p{Symbol}\s]
IsEmojiSymbolSpace(c) ==
  \/ c \in {TARGET, TRASH, CHECKMARK, HEAVYCHECK}
  \/ c \in {"+", "^", BACKTICK, "$", "=", "<", ">", "|", "~"}
  \/ IsSpace(c)

UpperSeq == <<"A","B","C","D","E","F","G","H","I","J","K","L","M",
              "N","O","P","Q","R","S","T","U","V","W","X","Y","Z">>
LowerSeq == <<"a","b","c","d","e","f","g","h","i","j","k","l","m",
              "n","o","p","q","r","s","t","u","v","w","x","y","z">>

toLowerCase(s) ==
  [i \in 1..Len(s) |->
     IF s[i] \in Upper
     THEN LowerSeq[CHOOSE k \in 1..26 : UpperSeq[k] = s[i]]
     ELSE s[i]]

RECURSIVE StripEmojiPrefix(_)
\* .replace(/^[\p{Emoji_Presentation}\p{Extended_Pictographic}\p{Symbol}\s]+/gu, "")
StripEmojiPrefix(s) ==
  IF s # <<>> /\ IsEmojiSymbolSpace(Head(s)) THEN StripEmojiPrefix(Tail(s)) ELSE s

\* .replace(/\(.+?\)\s*$/g, ""): the match starts at the leftmost "(" that has
\* at least one character before a ")" which only white space follows
StripParenthetical(s) ==
  LET t     == TrimEnd(s)
      opens == { i \in 1..Len(t) : t[i] = "(" /\ i + 2 <= Len(t) }
  IN  IF t # <<>> /\ t[Len(t)] = ")" /\ opens # {}
      THEN SubSeq(s, 1, (CHOOSE i \in opens : \A j \in opens : i <= j) - 1)
      ELSE s

RECURSIVE MapChars(_, _, _)
\* replaces every character of cs by the string rep
MapChars(s, cs, rep) ==
  IF s = <<>> THEN <<>>
  ELSE (IF Head(s) \in cs THEN rep ELSE <<Head(s)>>) \o MapChars(Tail(s), cs, rep)

RECURSIVE CollapseSpaces(_)
\* .replace(/\s+/g, " ")
CollapseSpaces(s) ==
  IF s = <<>> THEN <<>>
  ELSE IF IsSpace(Head(s))
       THEN <<SP>> \o CollapseSpaces(TrimStart(s))
       ELSE <<Head(s)>> \o CollapseSpaces(Tail(s))

normalizeHeadingText(text) ==
  LET a == StripEmojiPrefix(text)
      b == StripParenthetical(a)
      c == MapChars(b, {"+"}, <<SP, "p", "l", "u", "s", SP>>)
      d == MapChars(c, {APOS, BACKTICK, DQUOTE}, <<>>)
      e == MapChars(d, {".", ":", BULLET, "-", ENDASH, EMDASH}, <<SP>>)
  IN  CollapseSpaces(Trim(toLowerCase(e)))

\* /^\s*([-*_])\1{2,}\s*$/
isHorizontalRule(line) ==
  LET t == Trim(line)
  IN  /\ Len(t) >= 3
      /\ t[1] \in {"-", "*", "_"}
      /\ \A i \in 1..Len(t) : t[i] = t[1]

RECURSIVE LeadingHashes(_)
LeadingHashes(line) ==
  IF line # <<>> /\ Head(line) = "#" THEN 1 + LeadingHashes(Tail(line)) ELSE 0

\* line.match(/^(#{1,6})\s+/): the depth of the heading, or 0 when the line is
\* no heading
headingDepth(line) ==
  LET n == LeadingHashes(line)
  IN  IF n >= 1 /\ n <= 6 /\ Len(line) > n /\ IsSpace(line[n + 1]) THEN n ELSE 0

\* the heading text: group 2 of the heading match of the first loop
headingTextOf(line) == TrimStart(From(line, headingDepth(line) + 1))

\* the buffer returned with its trailing blank lines
TrimBlankTail_kept(buffer) == buffer

RECURSIVE TrimBlankTail(_)
\* while (buffer.length > 0 && buffer[buffer.length - 1].trim() === "") buffer.pop()
TrimBlankTail(buffer) ==
  IF buffer # <<>> /\ Trim(buffer[Len(buffer)]) = <<>>
  THEN TrimBlankTail(SubSeq(buffer, 1, Len(buffer) - 1)) ELSE buffer

RECURSIVE Accumulate(_, _, _, _, _)
\* the second loop of extractPrioritiesFromFile, from line j (1-based)
Accumulate(lines, j, startDepth, seenNonBlank, buffer) ==
  IF j > Len(lines) THEN buffer
  ELSE IF isHorizontalRule(lines[j]) THEN buffer
  ELSE IF headingDepth(lines[j]) # 0 /\ headingDepth(lines[j]) <= startDepth
       THEN buffer
  ELSE IF ~seenNonBlank /\ Trim(lines[j]) = <<>>
       THEN Accumulate(lines, j + 1, startDepth, FALSE, buffer)
  ELSE Accumulate(lines, j + 1, startDepth, TRUE, Append(buffer, lines[j]))

\* extractPrioritiesFromFile on the text vault.read returned
extractPriorities(content, desiredHeading) ==
  LET lines   == SplitCRLF(content)
      matches == { i \in 1..Len(lines) :
                     /\ headingDepth(lines[i]) # 0
                     /\ normalizeHeadingText(headingTextOf(lines[i]))
                          = normalizeHeadingText(desiredHeading) }
  IN  IF matches = {} THEN <<>>
      ELSE LET start == CHOOSE i \in matches : \A k \in matches : i <= k
           IN  Join(TrimBlankTail(
                 Accumulate(lines, start + 1, headingDepth(lines[start]), FALSE, <<>>)))

\* --------------------------------------------------------- task collection

RECURSIVE Contains(_, _)
\* whether pat occurs in s
Contains(s, pat) ==
  IF Len(s) < Len(pat) THEN FALSE
  ELSE StartsWith(s, pat) \/ Contains(Tail(s), pat)

\* \w
IsWordChar(c) == c \in Lower \cup Upper \cup Digit \cup {"_"}

\* /(done|completed|complete|cancel|<trash>|<check>|<heavy check>|x\b)/i.test(s)
completionPattern(s) ==
  LET l == toLowerCase(s)
  IN  \/ Contains(l, <<"d", "o", "n", "e">>)
      \/ Contains(l, <<"c", "o", "m", "p", "l", "e", "t", "e">>)
      \/ Contains(l, <<"c", "a", "n", "c", "e", "l">>)
      \/ \E i \in 1..Len(l) : l[i] \in {TRASH, CHECKMARK, HEAVYCHECK}
      \/ \E i \in 1..Len(l) :
           l[i] = "x" /\ (i = Len(l) \/ ~IsWordChar(l[i + 1]))

\* const booleanFlags: task.done, task.completed, task.isDone, status?.done,
\* status?.isDone
booleanFlags(task) ==
  <<task.done, task.completed, task.isDone, task.statusDone, task.statusIsDone>>

\* const completionDates
completionDates(task) == <<task.doneDate, task.completedDate, task.completionDate>>

\* !!date for a date that is absent or a string
Truthy(date) == date # Absent /\ date # <<>>

\* isCompletedTask with the completion dates left out
isCompletedTask_noDates(task) ==
  \/ \E i \in 1..Len(booleanFlags(task)) : booleanFlags(task)[i] = TRUE
  \/ completionPattern(toLowerCase(task.status))

\* isCompletedTask: a flag that is true, a completion date, or the status
isCompletedTask(task) ==
  \/ \E i \in 1..Len(booleanFlags(task)) : booleanFlags(task)[i] = TRUE
  \/ \E i \in 1..Len(completionDates(task)) : Truthy(completionDates(task)[i])
  \/ completionPattern(toLowerCase(task.status))

\* (folderPath ?? "").trim().replace(/^\/+|\/+$/g, "")
normalizeFolder(folderPath) ==
  StripTrailing(StripLeading(Trim(folderPath), {"/"}), {"/"})

\* const folderRoots
folderRootsOf(folders) ==
  SelectSeq([i \in 1..Len(folders) |-> normalizeFolder(folders[i])],
            LAMBDA f : Len(f) > 0)

\* the test of the roots by textual prefix alone
isInConfiguredFolders_prefix(folderRoots, taskPath) ==
  \/ Len(folderRoots) = 0
  \/ \E i \in 1..Len(folderRoots) : StartsWith(taskPath, folderRoots[i])

\* const isInConfiguredFolders
isInConfiguredFolders(folderRoots, taskPath) ==
  \/ Len(folderRoots) = 0
  \/ \E i \in 1..Len(folderRoots) :
       \/ taskPath = folderRoots[i]
       \/ StartsWith(taskPath, folderRoots[i] \o <<"/">>)

\* the filter of tasksArray that leaves the active document in
keepTask_noActiveExclusion(task, folderRoots, active) ==
  /\ task.path # Absent /\ task.path # <<>>
  /\ isInConfiguredFolders(folderRoots, task.path)

\* tasksArray.filter(...): a path, in the configured folders, not the active document
keepTask(task, folderRoots, active) ==
  /\ task.path # Absent /\ task.path # <<>>
  /\ isInConfiguredFolders(folderRoots, task.path)
  /\ task.path # active

\* const openTasks
openTasksOf(tasksArray, folders, active) ==
  SelectSeq(tasksArray,
            LAMBDA t : keepTask(t, folderRootsOf(folders), active)
                       /\ ~isCompletedTask(t))

\* ----------------------------------------------------------------- ranking

\* 2^16
HalfWord == 65536

\* the number high * 2^16 + low with 0 <= low < 2^16: a count, which may
\* exceed 2^31 - 1
Wide(high, low) == <<"wide", high, low>>

\* n | 0: the number is taken modulo 2^32 into the range from -2^31 to
\* 2^31 - 1, which changes nothing for a number of that range
ToInt32(n) ==
  LET high == n[2] % HalfWord
  IN  (IF high >= HalfWord \div 2 THEN high - HalfWord ELSE high) * HalfWord + n[3]

\* The content of a response is a sequence of tokens: a code fence (three
\* backticks), the word json, white space, other text, or the text of one JSON
\* value, which carries the value it parses to.
FENCE == <<"fence">>
JSONWORD == <<"json">>
WS == <<"ws">>
TEXT == <<"text">>
JsonText(value) == <<"value", value>>

\* JSON values: an object with an array ranked_task_ids, an object whose
\* ranked_task_ids is no array, an object without it, and null
Ranked(ids) == [kind |-> "ranked", ids |-> ids]
NotArray == [kind |-> "notArray", ids |-> <<>>]
EmptyObject == [kind |-> "object", ids |-> <<>>]
JsonNull == [kind |-> "null", ids |-> <<>>]

RECURSIVE trimTokensStart(_)
trimTokensStart(c) ==
  IF c # <<>> /\ Head(c) = WS THEN trimTokensStart(Tail(c)) ELSE c

RECURSIVE trimTokensEnd(_)
trimTokensEnd(c) ==
  IF c # <<>> /\ c[Len(c)] = WS THEN trimTokensEnd(SubSeq(c, 1, Len(c) - 1)) ELSE c

\* content.replace(/^\s*```(?:json)?/i, "")
stripOpeningFence(c) ==
  LET t == trimTokensStart(c)
  IN  IF t # <<>> /\ Head(t) = FENCE
      THEN IF Len(t) >= 2 /\ t[2] = JSONWORD THEN From(t, 3) ELSE From(t, 2)
      ELSE c

\* .replace(/```\s*$/i, "")
stripClosingFence(c) ==
  LET t == trimTokensEnd(c)
  IN  IF t # <<>> /\ t[Len(t)] = FENCE THEN SubSeq(t, 1, Len(t) - 1) ELSE c

\* JSON.parse(text) succeeds: the text is one JSON value, white space around it
jsonParses(c) ==
  LET t == trimTokensEnd(trimTokensStart(c))
  IN  Len(t) = 1 /\ Len(t[1]) = 2

\* the parse taking the first JSON value found anywhere in the content
parsedOf_anywhere(content) ==
  LET values == SelectSeq(content, LAMBDA t : Len(t) = 2)
  IN  IF values # <<>> THEN values[1][2] ELSE EmptyObject

\* let parsed = {}; try { parsed = JSON.parse(content.replace(...).replace(...).trim()) } catch {}
parsedOf(content) ==
  LET text == trimTokensEnd(trimTokensStart(stripClosingFence(stripOpeningFence(content))))
  IN  IF jsonParses(text) THEN text[1][2] ELSE EmptyObject

\* Array.isArray(parsed?.ranked_task_ids) ? ids.map(String) : [], then
\* .slice(0, Math.max(0, maxTasks | 0))
rankedIdsOf(res, maxTasks) ==
  LET parsed == parsedOf(res.content)
      ids    == IF parsed.kind = "ranked" THEN parsed.ids ELSE <<>>
      strs   == [i \in 1..Len(ids) |-> toStringOf(ids[i])]
  IN  SubSeq(strs, 1, Min(Len(strs), Max(0, ToInt32(maxTasks))))

\* ------------------------------------------------------------------ editor

RECURSIVE OffsetOf(_, _)
\* number of characters before the start of line `line` (0-based)
OffsetOf(lines, line) ==
  IF line = 0 THEN 0 ELSE Len(lines[1]) + 1 + OffsetOf(Tail(lines), line - 1)

\* the insertion made where the cursor is when the text is inserted
insertPosition_atCurrentCursor(text, cursorPosition) ==
  LET lines         == SplitLF(text)
      validatedLine == Min(Max(0, cursor.line), Len(lines) - 1)
      lineLength    == Len(lines[validatedLine + 1])
      validatedChar == Min(Max(0, cursor.ch), lineLength)
  IN  [line |-> validatedLine, ch |-> validatedChar]

\* const insertPosition of insertTextAtCursor
insertPosition(text, cursorPosition) ==
  LET lines         == SplitLF(text)
      validatedLine == Min(Max(0, cursorPosition.line), Len(lines) - 1)
      lineLength    == Len(lines[validatedLine + 1])
      validatedChar == Min(Max(0, cursorPosition.ch), lineLength)
  IN  [line |-> validatedLine, ch |-> validatedChar]

\* editor.replaceRange(ins, pos) on the editor's text
replaceRange(text, ins, pos) ==
  LET off == OffsetOf(SplitLF(text), pos.line) + pos.ch
  IN  SubSeq(text, 1, off) \o ins \o SubSeq(text, off + 1, Len(text))

\* const endPosition of insertTextAtCursor
endPosition(ins, pos) ==
  LET insertedLines == SplitLF(ins)
  IN  [line |-> pos.line + Len(insertedLines) - 1,
       ch   |-> IF Len(insertedLines) = 1 THEN pos.ch + Len(ins)
                ELSE Len(insertedLines[Len(insertedLines)])]

\* ![[note#^id]]
embedText(e) ==
  <<"!", "[", "[">> \o ensureMd(e.note) \o <<"#", "^">> \o e.id \o <<"]", "]">>

RECURSIVE embedLines(_)
\* taskEmbeds.join("\n") + "\n"
embedLines(es) ==
  IF es = <<>> THEN <<>> ELSE embedText(Head(es)) \o <<NL>> \o embedLines(Tail(es))

\* ----------------------------------------------------------------- the run

Info(text) == [kind |-> "info", msg |-> text]

\* the catch block of editorCallback, with the notice left out
catchBlock_silent(shown, msg) ==
  /\ notices' = shown
  /\ pc' = "error"

\* the catch block of editorCallback: one notice carrying the message
catchBlock(shown, msg) ==
  /\ notices' = Append(shown, [kind |-> "error", msg |-> msg])
  /\ pc' = "error"

\* throw new Error(msg) inside the try block, after the notices `shown`
Raise(shown, msg) ==
  /\ thrown' = Append(thrown, msg)
  /\ catchBlock(shown, msg)

\* tasksById.has(blockId)
tasksByIdHas(tasks, blockId) ==
  \E i \in 1..Len(tasks) : normalizeBlockId(tasks[i].id) = blockId

\* tasksById.get(blockId): the last task whose normalized id is blockId
tasksByIdGet(tasks, blockId) ==
  LET hits == { i \in 1..Len(tasks) : normalizeBlockId(tasks[i].id) = blockId }
  IN  tasks[CHOOSE i \in hits : \A j \in hits : j <= i]

\* the embed loop without the index test
embedAllowed_unchecked(task, blockId) == TRUE

\* the index test of the embed loop, skipped for a path that is no file
embedAllowed(task, blockId) ==
  isTFile(task.note) => blockId \in cache[task.note]

RECURSIVE taskEmbedsOf(_, _)
\* the loop over rankedIds that fills taskEmbeds
taskEmbedsOf(ids, tasks) ==
  IF ids = <<>> THEN <<>>
  ELSE LET blockId == normalizeBlockId(Head(ids))
           task    == tasksByIdGet(tasks, blockId)
           rest    == taskEmbedsOf(Tail(ids), tasks)
       IN  IF ~tasksByIdHas(tasks, blockId) THEN rest
           ELSE IF ~embedAllowed(task, blockId) THEN rest
           ELSE <<[note |-> task.note, id |-> blockId]>> \o rest

\* the command is invoked: the target document, the saved cursor and the
\* snapshot, then the count prompt opens
Start ==
  /\ pc = "idle"
  /\ IF activeFile = NoFile
     THEN /\ notices' = Append(notices, Info("Open a note first."))
          /\ pc' = "nofile"
          /\ UNCHANGED <<savedCursor, initialContent>>
     ELSE /\ savedCursor' = cursor
          /\ initialContent' = editorText
          /\ pc' = "prompt"
          /\ UNCHANGED notices
  /\ UNCHANGED <<envVars, cfgVars, taskCount, queue, taskItems, sync,
                 priorities, response, rankedIds, taskEmbeds, modifyLog, readLog, queried, fetches,
                 inserts, thrown, drvVars>>

\* counts the prompt resolves with
Counts == {Wide(0, 1), Wide(0, 2)}

\* the prompt resolves with a count: the collector looks the task-indexing
\* service up and calls getAllTasks()
PromptSubmit ==
  /\ pc = "prompt"
  /\ \E n \in Counts : taskCount' = n
  /\ IF ~tasksApi
     THEN /\ Raise(Append(notices, Info("Collecting open tasks")),
                   "Tasks plugin missing or incompatible.")
          /\ UNCHANGED queried
     ELSE /\ notices' = Append(notices, Info("Collecting open tasks"))
          /\ queried' = TRUE
          /\ pc' = "getTasks"
          /\ UNCHANGED thrown
  /\ UNCHANGED <<envVars, cfgVars, savedCursor, initialContent, queue,
                 taskItems, sync, priorities, response, rankedIds, taskEmbeds, modifyLog, readLog,
                 fetches, inserts, drvVars>>

\* the prompt resolves with null, and the run puts the snapshot back on its
\* way out
PromptCancel_restores ==
  /\ pc = "prompt"
  /\ pc' = "cancelled"
  /\ editorText' = initialContent
  /\ UNCHANGED <<vault, cache, activeFile, cursor, edits, cfgVars, savedCursor,
                 initialContent, taskCount, queue, taskItems, sync, priorities,
                 response, rankedIds, taskEmbeds, notices, modifyLog, readLog, queried,
                 fetches, inserts, thrown, drvVars>>

\* the prompt resolves with null
PromptCancel ==
  /\ pc = "prompt"
  /\ pc' = "cancelled"
  /\ UNCHANGED <<envVars, cfgVars, savedCursor, initialContent, taskCount,
                 queue, taskItems, sync, priorities, response, rankedIds, taskEmbeds, notices,
                 modifyLog, readLog, queried, fetches, inserts, thrown, drvVars>>

\* getAllTasks() resolves: the folder, active-document and completion filters
CollectFilter ==
  /\ pc = "getTasks"
  /\ queue' = openTasksOf(allTasks, settings.folders, activeFile)
  /\ taskItems' = <<>>
  /\ pc' = "loop"
  /\ UNCHANGED <<envVars, cfgVars, savedCursor, initialContent, taskCount,
                 sync, priorities, response, rankedIds, taskEmbeds, notices, modifyLog, readLog,
                 queried, fetches, inserts, thrown, drvVars>>

\* the loop body calls the synchronizer for the next open task
CollectCall ==
  /\ pc = "loop" /\ queue # <<>> /\ sync.pc = "idle"
  /\ ensureBegin(Head(queue), activeFile)
  /\ UNCHANGED <<envVars, cfgVars, runVars, drvVars, modifyLog>>

\* the synchronizer returned: taskItems.push
CollectPush ==
  /\ pc = "loop" /\ sync.pc = "ret"
  /\ taskItems' = Append(taskItems,
       [id   |-> normalizeBlockId(sync.token),
        note |-> ensureMd(Head(queue).path),
        via  |-> sync.via])
  /\ queue' = Tail(queue)
  /\ sync' = SyncIdle
  /\ UNCHANGED <<envVars, cfgVars, pc, savedCursor, initialContent, taskCount,
                 priorities, response, rankedIds, taskEmbeds, notices, modifyLog, readLog, queried,
                 fetches, inserts, thrown, drvVars>>

\* the synchronizer threw: the exception leaves the collector
CollectThrow ==
  /\ pc = "loop" /\ sync.pc = "threw"
  /\ Raise(notices, sync.err)
  /\ sync' = SyncIdle
  /\ UNCHANGED <<envVars, cfgVars, savedCursor, initialContent, taskCount,
                 queue, taskItems, priorities, response, rankedIds, taskEmbeds, modifyLog, readLog,
                 queried, fetches, inserts, drvVars>>

\* the run without the restoration
restore_skipped(text, snapshot) == text

\* a restoration that puts the snapshot back only when text was lost
restore_ifShorter(text, snapshot) ==
  IF Len(text) < Len(snapshot) THEN snapshot ELSE text

\* if (editor.getValue() !== initialContent) editor.setValue(initialContent)
restore(text, snapshot) == IF text # snapshot THEN snapshot ELSE text

\* the collector returned: the restoration, the no-tasks check, and the read
\* of the target document by the priority extractor
CollectReturn ==
  /\ pc = "loop" /\ queue = <<>> /\ sync.pc = "idle"
  /\ editorText' = restore(editorText, initialContent)
  /\ IF Len(taskItems) = 0
     THEN /\ notices' = Append(notices, Info("No open tasks found."))
          /\ pc' = "notasks"
          /\ UNCHANGED readLog
     ELSE /\ notices' = Append(notices, Info("Reading priorities"))
          /\ readLog' = Append(readLog, activeFile)
          /\ pc' = "extract"
  /\ UNCHANGED <<vault, cache, activeFile, cursor, edits, cfgVars, savedCursor,
                 initialContent, taskCount, queue, taskItems, sync, priorities,
                 response, rankedIds, taskEmbeds, modifyLog, queried, fetches, inserts, thrown,
                 drvVars>>

\* a credential taken for configured whatever the settings hold
apiKeyOf_assumed(s) == <<"s", "k">>

\* const apiKey = settings.openaiApiKey || ""
apiKeyOf(s) == s.openaiApiKey

\* vault.read of the target document resolves: the priorities, the
\* no-priorities check, and the request to the ranking service
ExtractDone ==
  /\ pc = "extract"
  /\ LET text == extractPriorities(vault[activeFile], settings.prioritiesHeading)
     IN  /\ priorities' = text
         /\ IF Trim(text) = <<>>
            THEN /\ notices' = Append(notices, Info("No priorities found."))
                 /\ pc' = "nopriorities"
                 /\ UNCHANGED <<fetches, thrown>>
            ELSE IF apiKeyOf(settings) = <<>>
            THEN /\ Raise(Append(notices, Info("Ranking with OpenAI")),
                          "OpenAI API key is not set.")
                 /\ UNCHANGED fetches
            ELSE /\ notices' = Append(notices, Info("Ranking with OpenAI"))
                 /\ fetches' = fetches + 1
                 /\ pc' = "rank"
                 /\ UNCHANGED thrown
  /\ UNCHANGED <<envVars, cfgVars, savedCursor, initialContent, taskCount,
                 queue, taskItems, sync, response, rankedIds, taskEmbeds, modifyLog, readLog,
                 queried, inserts, drvVars>>

\* getAllTasks(), vault.read of the target document or fetch rejects
AwaitFail ==
  /\ pc \in {"getTasks", "extract", "rank"}
  /\ Raise(notices, "io error")
  /\ UNCHANGED <<envVars, cfgVars, savedCursor, initialContent, taskCount,
                 queue, taskItems, sync, priorities, response, rankedIds, taskEmbeds, modifyLog,
                 readLog, queried, fetches, inserts, drvVars>>

\* ids a ranking response may hold: two tokens the run can know, one of them
\* written with the marker, and an id of no task
RawIds == {<<"t", "-", "a">>, <<SP, "^", "t", "-", "b">>, <<"z">>}

RECURSIVE SeqsUpTo(_, _)
SeqsUpTo(S, n) ==
  IF n = 0 THEN {<<>>}
  ELSE LET shorter == SeqsUpTo(S, n - 1)
       IN  shorter \cup { Append(q, x) : q \in shorter, x \in S }

\* what the ranking service may answer
\* contents without a ranking: none (the body is no JSON, or has no
\* choices), text that is no JSON, a fence of another language, text before
\* the fence, and JSON values without an array ranked_task_ids
Unranked ==
  {<<>>, <<TEXT>>,
   <<FENCE, TEXT, WS, JsonText(Ranked(<<<<"t", "-", "a">>>>)), WS, FENCE>>,
   <<TEXT, FENCE, JSONWORD, WS, JsonText(Ranked(<<<<"t", "-", "a">>>>)), FENCE>>,
   <<JsonText(EmptyObject)>>, <<JsonText(NotArray)>>, <<JsonText(JsonNull)>>}

\* contents with the ranking q: bare, and (for a ranking of at most one id)
\* in a code fence
RankedContents(q) ==
  {<<JsonText(Ranked(q))>>}
  \cup (IF Len(q) <= 1
        THEN {<<WS, FENCE, JSONWORD, WS, JsonText(Ranked(q)), WS, FENCE, WS>>}
        ELSE {})

\* no response received
NoResponse == [ok |-> FALSE, errorText |-> "", content |-> <<>>, received |-> FALSE]

\* what the ranking service may answer
Responses ==
  {[ok |-> FALSE, errorText |-> t, content |-> <<>>, received |-> TRUE] :
     t \in {"", "quota exceeded"}}
  \cup {[ok |-> TRUE, errorText |-> "", content |-> c, received |-> TRUE] :
     c \in Unranked \cup UNION { RankedContents(q) : q \in SeqsUpTo(RawIds, MaxRanked) }}

\* if (taskEmbeds.length === 0) { ...; return; }, with the test left out
nothingToInsert_never(embeds) == FALSE

\* if (taskEmbeds.length === 0) { ...; return; }
nothingToInsert(embeds) == Len(embeds) = 0

\* fetch resolves with one of `answers`: the non-success check, the parse,
\* the embed loop, the nothing-to-insert check and the insertion
RankResponseFrom(answers) ==
  /\ pc = "rank"
  /\ \E res \in answers :
       /\ response' = res
       /\ IF ~res.ok
          THEN /\ Raise(notices, IF res.errorText # "" THEN res.errorText
                                 ELSE "OpenAI error 500")
               /\ UNCHANGED <<rankedIds, taskEmbeds, inserts, editorText, cursor>>
          ELSE LET ids    == rankedIdsOf(res, taskCount)
                   embeds == taskEmbedsOf(ids, taskItems)
                   ins    == embedLines(embeds)
                   pos    == insertPosition(editorText, savedCursor)
               IN  /\ rankedIds' = ids
                   /\ taskEmbeds' = embeds
                   /\ UNCHANGED thrown
                   /\ IF nothingToInsert(embeds)
                      THEN /\ notices' = Append(notices, Info("No tasks returned"))
                           /\ pc' = "nothing"
                           /\ UNCHANGED <<inserts, editorText, cursor>>
                      ELSE /\ editorText' = replaceRange(editorText, ins, pos)
                           /\ cursor' = endPosition(ins, pos)
                           /\ inserts' = Append(inserts,
                                [pos |-> pos, text |-> ins, before |-> editorText,
                                 at |-> cursor, index |-> cache])
                           /\ notices' = Append(notices, Info("Inserted ranked task embeds"))
                           /\ pc' = "inserted"
  /\ UNCHANGED <<vault, cache, activeFile, edits, cfgVars, savedCursor,
                 initialContent, taskCount, queue, taskItems, sync, priorities,
                 modifyLog, readLog, queried, fetches, drvVars>>

\* fetch resolves with any of the answers
RankResponse == RankResponseFrom(Responses)

\* ------------------------------------------------------------- direct scan

\* frame of collectAllOpenTasksDirect when it is not running
ScanIdle ==
  [pc |-> "idle", folders |-> <<>>, files |-> <<>>, file |-> NoFile,
   tasks |-> <<>>, content |-> <<>>, err |-> ""]

\* the order in which the vault lists its documents
VaultOrder == <<FA, FB, FC>>

\* getAllMarkdownFilesUnderFolder(app, folderPath): the document itself when
\* the path names one, the documents below the folder otherwise
getAllMarkdownFilesUnderFolder(folderPath) ==
  IF isTFile(folderPath)
  THEN IF EndsWith(folderPath, <<".", "m", "d">>) THEN <<folderPath>> ELSE <<>>
  ELSE SelectSeq(VaultOrder,
         LAMBDA f : /\ f \in DOMAIN vault
                    /\ StartsWith(f, folderPath \o <<"/">>)
                    /\ EndsWith(f, <<".", "m", "d">>))

\* line.match(/^\s*[-*]\s+\[\s*\]\s+(.+)$/) succeeds; the dot matches no line
\* terminator
isOpenTaskLine(line) ==
  LET a == TrimStart(line)
      b == From(a, 2)
      c == TrimStart(b)
      d == TrimStart(From(c, 2))
      e == From(d, 2)
  IN  /\ a # <<>> /\ a[1] \in {"-", "*"}
      /\ Len(c) < Len(b)
      /\ c # <<>> /\ c[1] = "["
      /\ d # <<>> /\ d[1] = "]"
      /\ \E k \in 1..(Len(e) - 1) :
           /\ \A i \in 1..k : IsSpace(e[i])
           /\ \A i \in (k + 1)..Len(e) : e[i] \notin {NL, CR}

\* lines of a document that the scan gives a new token
needsToken(lines) ==
  { i \in 1..Len(lines) : isOpenTaskLine(lines[i]) /\ blockIdMatch(lines[i]) = <<>> }

\* what successive calls of generateUniqueTaskBlockId(existingIds) may give
\* the lines that need a token: tokens not yet in the document, all different
tokenChoices(lines) ==
  { picks \in [needsToken(lines) -> freshCandidates(existingIdsOf(lines))] :
      \A i, j \in needsToken(lines) : i # j => picks[i] # picks[j] }

RECURSIVE scanLines(_, _, _, _)
\* the loop of collectTasksFromFile over the lines, from line i on:
\* [lines, tasks, mutated]
scanLines(lines, i, path, picks) ==
  IF i > Len(lines)
  THEN [lines |-> lines, tasks |-> <<>>, mutated |-> FALSE]
  ELSE IF ~isOpenTaskLine(lines[i])
  THEN scanLines(lines, i + 1, path, picks)
  ELSE LET found   == blockIdMatch(lines[i])
           blockId == IF found = <<>> THEN picks[i] ELSE found
           line    == IF found = <<>>
                      THEN lines[i] \o <<SP, SP, "^">> \o blockId
                      ELSE lines[i]
           rest    == scanLines([lines EXCEPT ![i] = line], i + 1, path, picks)
           item    == [id   |-> normalizeBlockId(blockId),
                       note |-> ensureMd(path),
                       via  |-> IF found = <<>> THEN "generated" ELSE "line"]
       IN  [lines   |-> rest.lines,
            tasks   |-> <<item>> \o rest.tasks,
            mutated |-> (found = <<>>) \/ rest.mutated]

\* collectAllOpenTasksDirect takes the next configured folder: the folder is
\* skipped when its trimmed path is empty, listed otherwise
DirectFolder ==
  /\ pc = "direct" /\ scan.pc = "loop"
  /\ scan.files = <<>> /\ scan.folders # <<>>
  /\ LET trimmedPath == normalizeFolder(Head(scan.folders))
     IN  scan' = [scan EXCEPT
           !.folders = Tail(scan.folders),
           !.files = IF trimmedPath = <<>> THEN <<>>
                     ELSE getAllMarkdownFilesUnderFolder(trimmedPath)]
  /\ UNCHANGED <<second, envVars, cfgVars, runVars, sync, modifyLog, readLog, calls,
                 results>>

\* collectTasksFromFile begins with the next document: nothing for the active
\* document, vault.read for another
DirectFile ==
  /\ pc = "direct" /\ scan.pc = "loop"
  /\ scan.files # <<>>
  /\ IF activeFile # NoFile /\ Head(scan.files) = activeFile
     THEN /\ scan' = [scan EXCEPT !.files = Tail(scan.files)]
          /\ UNCHANGED readLog
     ELSE /\ scan' = [scan EXCEPT !.pc = "read", !.file = Head(scan.files),
                                  !.files = Tail(scan.files)]
          /\ readLog' = Append(readLog, Head(scan.files))
  /\ UNCHANGED <<second, envVars, cfgVars, runVars, sync, modifyLog, calls, results>>

\* a scan that writes every document it read back, changed or not
DirectRead_alwaysWrites ==
  /\ pc = "direct" /\ scan.pc = "read"
  /\ LET lines == SplitLF(vault[scan.file])
     IN  \E picks \in tokenChoices(lines) :
           LET r == scanLines(lines, 1, scan.file, picks)
           IN  /\ scan' = [scan EXCEPT !.pc = "modify", !.tasks = r.tasks,
                                       !.content = Join(r.lines)]
               /\ UNCHANGED taskItems
  /\ UNCHANGED <<second, envVars, cfgVars, pc, savedCursor, initialContent, taskCount,
                 queue, sync, priorities, response, rankedIds, taskEmbeds, notices,
                 modifyLog, readLog, queried, fetches, inserts, thrown, calls,
                 results>>

\* vault.read resolves: the loop over the lines, then vault.modify when a
\* line was given a token, the return of the document's tasks otherwise
DirectRead ==
  /\ pc = "direct" /\ scan.pc = "read"
  /\ LET lines == SplitLF(vault[scan.file])
     IN  \E picks \in tokenChoices(lines) :
           LET r == scanLines(lines, 1, scan.file, picks)
           IN  IF r.mutated
               THEN /\ scan' = [scan EXCEPT !.pc = "modify", !.tasks = r.tasks,
                                            !.content = Join(r.lines)]
                    /\ UNCHANGED taskItems
               ELSE /\ scan' = [scan EXCEPT !.pc = "loop", !.file = NoFile]
                    /\ taskItems' = taskItems \o r.tasks
  /\ UNCHANGED <<second, envVars, cfgVars, pc, savedCursor, initialContent, taskCount,
                 queue, sync, priorities, response, rankedIds, taskEmbeds, notices,
                 modifyLog, readLog, queried, fetches, inserts, thrown, calls,
                 results>>

\* vault.modify resolves: the document is written, the 100 ms sleep begins
DirectModify ==
  /\ pc = "direct" /\ scan.pc = "modify"
  /\ vault' = [vault EXCEPT ![scan.file] = scan.content]
  /\ modifyLog' = Append(modifyLog, [path |-> scan.file, content |-> scan.content])
  /\ scan' = [scan EXCEPT !.pc = "sleep"]
  /\ UNCHANGED <<second, cache, activeFile, editorText, cursor, edits, cfgVars,
                 runVars, sync, readLog, calls, results>>

\* the sleep ends: collectTasksFromFile returns the document's tasks
DirectSleep ==
  /\ pc = "direct" /\ scan.pc = "sleep"
  /\ taskItems' = taskItems \o scan.tasks
  /\ scan' = [scan EXCEPT !.pc = "loop", !.file = NoFile, !.tasks = <<>>,
                          !.content = <<>>]
  /\ UNCHANGED <<second, envVars, cfgVars, pc, savedCursor, initialContent, taskCount,
                 queue, sync, priorities, response, rankedIds, taskEmbeds, notices,
                 modifyLog, readLog, queried, fetches, inserts, thrown, calls,
                 results>>

\* vault.read or vault.modify rejects
DirectIoFail ==
  /\ pc = "direct" /\ scan.pc \in {"read", "modify"}
  /\ scan' = [ScanIdle EXCEPT !.pc = "threw", !.err = "io error"]
  /\ UNCHANGED <<second, envVars, cfgVars, runVars, sync, modifyLog, readLog, calls,
                 results>>

\* ------------------------------------------------------------- environment

Running == {"prompt", "getTasks", "loop", "extract", "rank"}

\* the background index catches up with a document's stored text
EnvIndex ==
  /\ \E p \in DOMAIN vault :
       /\ cache[p] # existingIdsOf(SplitLF(vault[p]))
       /\ cache' = [cache EXCEPT ![p] = existingIdsOf(SplitLF(vault[p]))]
  /\ UNCHANGED <<vault, activeFile, editorText, cursor, edits, cfgVars, runVars,
                 sync, modifyLog, readLog, drvVars>>

\* positions the cursor may be at: the start of the text and the end of its
\* third line
CursorPositions == {[line |-> 0, ch |-> 0], [line |-> 2, ch |-> 7]}

\* the user moves the cursor while the run awaits
EnvMove ==
  /\ pc \in Running
  /\ \E c \in CursorPositions \ {cursor} : cursor' = c
  /\ UNCHANGED <<vault, cache, activeFile, editorText, edits, cfgVars, runVars,
                 sync, modifyLog, readLog, drvVars>>

\* texts one edit can turn the editor's text into: a line added at the top,
\* or the last line removed
EditsOf(text) ==
  LET lines == SplitLF(text)
  IN  {<<"y", NL>> \o text}
      \cup (IF Len(lines) > 1 THEN {Join(SubSeq(lines, 1, Len(lines) - 1))} ELSE {})

\* the editor's text changes while the run awaits (the user, or the host)
EnvEdit ==
  /\ pc \in Running
  /\ edits < MaxEdits
  /\ \E t \in EditsOf(editorText) : editorText' = t
  /\ edits' = edits + 1
  /\ UNCHANGED <<vault, cache, activeFile, cursor, cfgVars, runVars, sync,
                 modifyLog, readLog, drvVars>>

\* the host saves the editor's text to the vault
EnvSave ==
  /\ pc \in Running
  /\ activeFile # NoFile
  /\ vault[activeFile] # editorText
  /\ vault' = [vault EXCEPT ![activeFile] = editorText]
  /\ UNCHANGED <<cache, activeFile, editorText, cursor, edits, cfgVars, runVars,
                 sync, modifyLog, readLog, drvVars>>

\* ----------------------------------------------------------- specifications

\* records the task-indexing service may answer with
RecGenerate == Rec(FB, Num(0), Absent, FALSE)
RecOnLine == Rec(FB, Num(1), Absent, FALSE)
RecLinked == Rec(FC, Num(0), <<SP, "^", "t", "-", "a">>, FALSE)
RecActive == Rec(FA, Num(2), Absent, FALSE)
RecGone == Rec(FG, Num(0), Absent, FALSE)
RecDone == Rec(FB, Num(0), Absent, TRUE)
RecNoLine == Rec(FC, Absent, Absent, FALSE)
RecPastEnd == Rec(FB, Num(7), Absent, FALSE)
RecNegative == Rec(FC, Num(-1), Absent, FALSE)
RecNoPath == Rec(Absent, Num(0), Absent, FALSE)

RunRecords == {RecGenerate, RecOnLine, RecLinked, RecActive, RecGone, RecDone}

\* records handed to the synchronizer called alone; it reads no completion field
SyncRecords ==
  (RunRecords \ {RecDone}) \cup {RecNoLine, RecPastEnd, RecNegative, RecNoPath}

\* settings the run may find: every folder with a credential, the folder W
\* (written with slashes and a blank entry) with a credential, no credential
SettingsChoices ==
  {[folders |-> <<>>, openaiApiKey |-> <<"s", "k">>, prioritiesHeading |-> <<"P">>],
   [folders |-> <<<<SP, "/", "W", "/">>, <<"/">>>>, openaiApiKey |-> <<"s", "k">>,
    prioritiesHeading |-> <<"P">>],
   [folders |-> <<>>, openaiApiKey |-> <<>>, prioritiesHeading |-> <<"P">>]}

\* the variables of one run of the command, as a record
Frame(p, sc, ic, tc, q, ti, sy, pr, rs, ri, te) ==
  [pc |-> p, savedCursor |-> sc, initialContent |-> ic, taskCount |-> tc,
   queue |-> q, taskItems |-> ti, sync |-> sy, priorities |-> pr,
   response |-> rs, rankedIds |-> ri, taskEmbeds |-> te]

\* a run that has not been invoked
IdleFrame ==
  Frame("idle", [line |-> 0, ch |-> 0], <<>>, Wide(0, 0), <<>>, <<>>, SyncIdle, <<>>,
        NoResponse, <<>>, <<>>)

\* run number `run` waiting with the frame `frame`, after `switches` changes
\* of the executing run
Parked(run, frame, switches) == [run |-> run, frame |-> frame, switches |-> switches]

\* no run, call or scan has begun
InitFrames ==
  /\ edits = 0
  /\ savedCursor = [line |-> 0, ch |-> 0]
  /\ initialContent = <<>>
  /\ taskCount = Wide(0, 0)
  /\ queue = <<>>
  /\ taskItems = <<>>
  /\ sync = SyncIdle
  /\ priorities = <<>>
  /\ response = NoResponse
  /\ rankedIds = <<>>
  /\ taskEmbeds = <<>>
  /\ notices = <<>>
  /\ modifyLog = <<>>
  /\ readLog = <<>>
  /\ queried = FALSE
  /\ fetches = 0
  /\ inserts = <<>>
  /\ thrown = <<>>
  /\ calls = 0
  /\ results = <<>>
  /\ scan = ScanIdle
  /\ second = Parked(2, IdleFrame, 0)

InitCommon ==
  /\ vault = [p \in Files |->
                IF p = FA THEN ContentA ELSE IF p = FB THEN ContentB ELSE ContentC]
  /\ cache = [p \in Files |-> existingIdsOf(SplitLF(vault[p]))]
  /\ InitFrames

\* one run of the command
Init ==
  /\ InitCommon
  /\ pc = "idle"
  /\ activeFile \in {FA, NoFile}
  /\ editorText = ContentA
  /\ cursor = [line |-> 2, ch |-> 7]
  /\ tasksApi \in BOOLEAN
  /\ allTasks \in SeqsUpTo(RunRecords, MaxTasks)
  /\ settings \in SettingsChoices
  \* what is never read is not varied
  /\ activeFile = NoFile => tasksApi
  /\ (activeFile = NoFile \/ ~tasksApi) =>
       /\ allTasks = <<>>
       /\ settings.folders = <<>>
       /\ settings.openaiApiKey = <<>>

Next ==
  \/ Start
  \/ PromptSubmit
  \/ PromptCancel
  \/ CollectFilter
  \/ CollectCall
  \/ SyncRead
  \/ SyncIoFail
  \/ SyncWrite
  \/ waitForBlockIndexed
  \/ CollectPush
  \/ CollectThrow
  \/ CollectReturn
  \/ ExtractDone
  \/ AwaitFail
  \/ RankResponse
  \/ EnvIndex
  \/ EnvMove
  \/ EnvEdit
  \/ EnvSave

Spec == Init /\ [][Next]_vars

\* ------------------------------------------- the synchronizer called alone

\* a caller hands a task reference to ensureBlockIdInBackgroundFile
DriverCall ==
  /\ pc = "driver" /\ sync.pc = "idle" /\ calls < MaxCalls
  /\ \E task \in SyncRecords :
       /\ ensureBegin(task, activeFile)
       /\ results' = Append(results,
            [task |-> task, done |-> FALSE, token |-> <<>>, via |-> "",
             stored |-> vault, modifies |-> Len(modifyLog)])
  /\ calls' = calls + 1
  /\ UNCHANGED <<second, envVars, cfgVars, runVars, modifyLog, scan>>

\* the call returns or throws
DriverReturn ==
  /\ pc = "driver" /\ sync.pc \in {"ret", "threw"}
  /\ results' = [results EXCEPT ![Len(results)] =
       [@ EXCEPT !.done = TRUE, !.token = sync.token,
                 !.via = IF sync.pc = "threw" THEN "threw" ELSE sync.via]]
  /\ sync' = SyncIdle
  /\ UNCHANGED <<second, envVars, cfgVars, runVars, modifyLog, readLog, calls, scan>>

InitSync ==
  /\ InitCommon
  /\ pc = "driver"
  /\ activeFile \in {FA, FB, NoFile}
  /\ editorText = IF activeFile = FB THEN ContentB ELSE ContentA
  /\ cursor = [line |-> 0, ch |-> 0]
  /\ tasksApi = TRUE
  /\ allTasks = <<>>
  /\ settings = [folders |-> <<>>, openaiApiKey |-> <<"s", "k">>,
                 prioritiesHeading |-> <<"P">>]

NextSync ==
  \/ DriverCall
  \/ SyncRead
  \/ SyncIoFail
  \/ SyncWrite
  \/ waitForBlockIndexed
  \/ DriverReturn
  \/ EnvIndex

SpecSync == InitSync /\ [][NextSync]_vars

\* the synchronizer called alone, with the host's event loop running every
\* continuation that is ready: a read or a write that resolves is resumed, a
\* sleep of the poll loop ends. Nothing makes the index catch up.
SpecSyncFair ==
  /\ InitSync
  /\ [][NextSync]_vars
  /\ WF_vars(SyncRead)
  /\ WF_vars(SyncWrite)
  /\ WF_vars(waitForBlockIndexed)

\* ------------------------------------------------ the collectors called alone

\* strategies of collection
Strategies == {"indexed", "direct"}

\* paths of the vault.read calls made since the log had n entries
readSince(n) == { readLog[k] : k \in (n + 1)..Len(readLog) }

\* paths of the vault.modify calls made since the log had n entries
writtenSince(n) == { modifyLog[k].path : k \in (n + 1)..Len(modifyLog) }

\* a caller invokes one of the collectors: collectOpenTasksViaTasksPlugin up
\* to `await tasksApi.getAllTasks()`, or collectAllOpenTasksDirect up to its
\* loop over the configured folders
CollectorCall ==
  /\ pc = "driver" /\ calls < MaxCalls
  /\ calls' = calls + 1
  /\ taskItems' = <<>>
  /\ \E strategy \in Strategies :
       /\ results' = Append(results,
            [strategy |-> strategy, done |-> FALSE, threw |-> FALSE,
             items |-> <<>>, reads |-> Len(readLog), writes |-> Len(modifyLog),
             read |-> {}, written |-> {}])
       /\ IF strategy = "indexed"
          THEN IF ~tasksApi
               THEN /\ pc' = "threw"
                    /\ UNCHANGED <<queried, scan>>
               ELSE /\ queried' = TRUE
                    /\ pc' = "getTasks"
                    /\ UNCHANGED scan
          ELSE /\ pc' = "direct"
               /\ scan' = [ScanIdle EXCEPT !.pc = "loop",
                                           !.folders = settings.folders]
               /\ UNCHANGED queried
  /\ UNCHANGED <<second, envVars, cfgVars, savedCursor, initialContent, taskCount,
                 queue, sync, priorities, response, rankedIds, taskEmbeds, notices,
                 modifyLog, readLog, fetches, inserts, thrown>>

\* the collector returns its task items
CollectorReturn ==
  /\ \/ pc = "loop" /\ queue = <<>> /\ sync.pc = "idle"
     \/ pc = "direct" /\ scan.pc = "loop" /\ scan.files = <<>> /\ scan.folders = <<>>
  /\ LET call == results[Len(results)]
     IN  results' = [results EXCEPT ![Len(results)] =
           [call EXCEPT !.done = TRUE, !.items = taskItems,
                        !.read = readSince(call.reads),
                        !.written = writtenSince(call.writes)]]
  /\ pc' = "driver"
  /\ scan' = ScanIdle
  /\ UNCHANGED <<second, envVars, cfgVars, savedCursor, initialContent, taskCount,
                 queue, taskItems, sync, priorities, response, rankedIds, taskEmbeds,
                 notices, modifyLog, readLog, queried, fetches, inserts, thrown,
                 calls>>

\* an exception leaves the collector: the service is missing, getAllTasks()
\* rejects, the synchronizer throws, or the scan's vault.read or vault.modify
\* rejects
CollectorThrow ==
  /\ \/ pc = "threw"
     \/ pc = "getTasks"
     \/ pc = "loop" /\ sync.pc = "threw"
     \/ pc = "direct" /\ scan.pc = "threw"
  /\ LET call == results[Len(results)]
     IN  results' = [results EXCEPT ![Len(results)] =
           [call EXCEPT !.done = TRUE, !.threw = TRUE,
                        !.read = readSince(call.reads),
                        !.written = writtenSince(call.writes)]]
  /\ pc' = "driver"
  /\ sync' = SyncIdle
  /\ scan' = ScanIdle
  /\ UNCHANGED <<second, envVars, cfgVars, savedCursor, initialContent, taskCount,
                 queue, taskItems, priorities, response, rankedIds, taskEmbeds, notices,
                 modifyLog, readLog, queried, fetches, inserts, thrown, calls>>

\* records the task-indexing service answers with when a collector is called
CollectRecords == {RecGenerate, RecLinked, RecActive, RecDone}

\* folder settings: none, the folder W written with slashes and a blank
\* entry, the folders X and W
FolderChoices ==
  {<<>>, <<<<SP, "/", "W", "/">>, <<"/">>>>, <<<<"X">>, <<"W">>>>}

InitCollect ==
  /\ InitCommon
  /\ pc = "driver"
  /\ activeFile \in {FA, FB, NoFile}
  /\ editorText = IF activeFile = FB THEN ContentB ELSE ContentA
  /\ cursor = [line |-> 0, ch |-> 0]
  /\ tasksApi \in BOOLEAN
  /\ allTasks \in (IF tasksApi THEN SeqsUpTo(CollectRecords, MaxTasks) ELSE {<<>>})
  /\ \E f \in FolderChoices :
       settings = [folders |-> f, openaiApiKey |-> <<"s", "k">>,
                   prioritiesHeading |-> <<"P">>]

NextCollect ==
  \/ CollectorCall
  \/ CollectFilter
  \/ CollectCall
  \/ SyncRead
  \/ SyncIoFail
  \/ SyncWrite
  \/ waitForBlockIndexed
  \/ CollectPush
  \/ DirectFolder
  \/ DirectFile
  \/ DirectRead
  \/ DirectIoFail
  \/ DirectModify
  \/ DirectSleep
  \/ CollectorReturn
  \/ CollectorThrow
  \/ EnvIndex

SpecCollect == InitCollect /\ [][NextCollect]_vars

\* ----------------------------------- the collectors on documents to be tokened

\* a background document of two open tasks without tokens
ContentD == Join(<<TaskP, TaskS>>)

\* records for the two task lines of that document
RecFirst == Rec(FC, Num(0), Absent, FALSE)
RecSecond == Rec(FC, Num(1), Absent, FALSE)

GenerateRecords == {RecGenerate, RecFirst, RecSecond}

\* the collectors are called on a vault in which X/c.md holds ContentD
InitGenerate ==
  /\ vault = [p \in Files |->
                IF p = FA THEN ContentA ELSE IF p = FB THEN ContentB ELSE ContentD]
  /\ cache = [p \in Files |-> existingIdsOf(SplitLF(vault[p]))]
  /\ InitFrames
  /\ pc = "driver"
  /\ activeFile = FA
  /\ editorText = ContentA
  /\ cursor = [line |-> 0, ch |-> 0]
  /\ tasksApi = TRUE
  /\ allTasks \in SeqsUpTo(GenerateRecords, MaxTasks)
  /\ settings = [folders |-> <<<<"X">>, <<"W">>>>, openaiApiKey |-> <<"s", "k">>,
                 prioritiesHeading |-> <<"P">>]

SpecGenerate == InitGenerate /\ [][NextCollect]_vars

\* ----------------------------------- the collectors on a document of CRLF lines

\* a background document of two open tasks without tokens whose first line
\* ends with a carriage return
ContentE == TaskP \o <<CR, NL>> \o TaskS

RewriteRecords == {RecGenerate, RecSecond}

\* the collectors are called on a vault in which X/c.md holds ContentE and
\* the first task line of W/b.md ends with a space
InitRewrite ==
  /\ vault = [p \in Files |->
                IF p = FA THEN ContentA ELSE IF p = FB THEN ContentB ELSE ContentE]
  /\ cache = [p \in Files |-> existingIdsOf(SplitLF(vault[p]))]
  /\ InitFrames
  /\ pc = "driver"
  /\ activeFile = FA
  /\ editorText = ContentA
  /\ cursor = [line |-> 0, ch |-> 0]
  /\ tasksApi = TRUE
  /\ allTasks \in SeqsUpTo(RewriteRecords, MaxTasks)
  /\ settings = [folders |-> <<<<"X">>, <<"W">>>>, openaiApiKey |-> <<"s", "k">>,
                 prioritiesHeading |-> <<"P">>]

SpecRewrite == InitRewrite /\ [][NextCollect]_vars

\* ------------------------------------------ the priority extractor called alone

\* the heading of DEFAULT_SETTINGS and the desired heading written without
\* the emoji and the possessive
HeadingNextWeek ==
  <<TARGET, SP, "N", "e", "x", "t", SP, "W", "e", "e", "k", APOS, "s", SP,
    "P", "r", "i", "o", "r", "i", "t", "i", "e", "s">>
DesiredNextWeek ==
  <<"N", "e", "x", "t", SP, "W", "e", "e", "k", SP,
    "P", "r", "i", "o", "r", "i", "t", "i", "e", "s">>

\* lines of the documents: headings of depth 1, 2 and 3, a blank line, a line
\* of white space, a horizontal rule and a line of text
ExtractLines ==
  { <<"#", "#", SP, "P">>,
    <<"#", SP, "Q">>,
    <<"#", "#", "#", SP, "R">>,
    <<"#", "#", SP>> \o HeadingNextWeek,
    <<>>,
    <<SP>>,
    <<"-", "-", "-">>,
    BodyX }

DesiredHeadings == {<<"P">>, DesiredNextWeek}

\* the active document holds up to MaxLines of these lines
InitExtract ==
  /\ \E doc \in SeqsUpTo(ExtractLines, MaxLines) :
       vault = [p \in Files |->
                  IF p = FA THEN Join(doc) ELSE IF p = FB THEN ContentB ELSE ContentC]
  /\ cache = [p \in Files |-> existingIdsOf(SplitLF(vault[p]))]
  /\ InitFrames
  /\ pc = "driver"
  /\ activeFile = FA
  /\ editorText = vault[FA]
  /\ cursor = [line |-> 0, ch |-> 0]
  /\ tasksApi = FALSE
  /\ allTasks = <<>>
  /\ \E h \in DesiredHeadings :
       settings = [folders |-> <<>>, openaiApiKey |-> <<"s", "k">>,
                   prioritiesHeading |-> h]

\* extractPrioritiesFromFile(app, file, settings.prioritiesHeading) on the
\* active document: vault.read, then the two loops
ExtractorCall ==
  /\ pc = "driver" /\ calls < 1
  /\ calls' = calls + 1
  /\ readLog' = Append(readLog, activeFile)
  /\ priorities' = extractPriorities(vault[activeFile], settings.prioritiesHeading)
  /\ UNCHANGED <<second, envVars, cfgVars, pc, savedCursor, initialContent, taskCount,
                 queue, taskItems, sync, response, rankedIds, taskEmbeds,
                 notices, modifyLog, queried, fetches, inserts, thrown, results,
                 scan>>

NextExtract == ExtractorCall

SpecExtract == InitExtract /\ [][NextExtract]_vars

\* --------------------------------------- the completion heuristic called alone

ADate == <<"2", "0", "2", "4", "-", "0", "1", "-", "0", "1">>

\* status strings: none, open ones, the words and a symbol of the pattern in
\* several spellings, and strings with an x before a word boundary
StatusStrings ==
  { <<>>,
    <<"T", "o", "d", "o">>,
    <<"o", "p", "e", "n">>,
    <<"x", SP, "d", "o", "n", "e">>,
    <<"D", "O", "N", "E">>,
    <<"C", "a", "n", "c", "e", "l", "l", "e", "d">>,
    <<"I", "n", "c", "o", "m", "p", "l", "e", "t", "e">>,
    <<CHECKMARK>>,
    <<"x">>,
    <<"i", "n", "b", "o", "x">>,
    <<"n", "e", "x", "t">> }

\* records with every combination of flags, dates and status
CompletionRecords ==
  { [Rec(FB, Num(0), Absent, d) EXCEPT
       !.completed = c, !.isDone = e, !.statusDone = f, !.statusIsDone = g,
       !.doneDate = dd, !.completedDate = cd, !.completionDate = pd,
       !.status = st] :
      d \in BOOLEAN, c \in BOOLEAN, e \in BOOLEAN, f \in BOOLEAN, g \in BOOLEAN,
      dd \in {Absent, <<>>, ADate}, cd \in {Absent, ADate},
      pd \in {Absent, ADate}, st \in StatusStrings }

InitCompleted ==
  /\ InitCommon
  /\ pc = "driver"
  /\ activeFile = FA
  /\ editorText = ContentA
  /\ cursor = [line |-> 0, ch |-> 0]
  /\ tasksApi = TRUE
  /\ \E task \in CompletionRecords : allTasks = <<task>>
  /\ settings = [folders |-> <<>>, openaiApiKey |-> <<"s", "k">>,
                 prioritiesHeading |-> <<"P">>]

\* isCompletedTask(task) on the record of the service
CompletedCall ==
  /\ pc = "driver" /\ calls < 1
  /\ calls' = calls + 1
  /\ results' = Append(results,
       [task |-> allTasks[1], completed |-> isCompletedTask(allTasks[1])])
  /\ UNCHANGED <<second, envVars, cfgVars, runVars, sync, modifyLog, readLog, scan>>

NextCompleted == CompletedCall

SpecCompleted == InitCompleted /\ [][NextCompleted]_vars

\* ---------------------------------------------- the folder filter called alone

\* folder entries of the settings: a folder, the same written with slashes
\* and white space, a sub-folder, and entries that name no folder
FolderEntries ==
  { <<"W", "o", "r", "k">>,
    <<SP, "/", "W", "o", "r", "k", "/", "/", SP>>,
    <<"W", "o", "r", "k", "/", "s", "u", "b">>,
    <<"X">>,
    <<"/">>,
    <<>> }

\* paths of task records
TaskPaths ==
  { <<"W", "o", "r", "k">>,
    <<"W", "o", "r", "k", "/", "a", ".", "m", "d">>,
    <<"W", "o", "r", "k", "/", "s", "u", "b", "/", "a", ".", "m", "d">>,
    <<"W", "o", "r", "k", "s", "h", "o", "p", "/", "a", ".", "m", "d">>,
    <<"w", "o", "r", "k", "/", "a", ".", "m", "d">>,
    <<"a", ".", "m", "d">>,
    FB, FC }

InitFolders ==
  /\ InitCommon
  /\ pc = "driver"
  /\ activeFile = FA
  /\ editorText = ContentA
  /\ cursor = [line |-> 0, ch |-> 0]
  /\ tasksApi = TRUE
  /\ \E path \in TaskPaths : allTasks = <<Rec(path, Num(0), Absent, FALSE)>>
  /\ \E f \in SeqsUpTo(FolderEntries, MaxTasks) :
       settings = [folders |-> f, openaiApiKey |-> <<"s", "k">>,
                   prioritiesHeading |-> <<"P">>]

\* isInConfiguredFolders(taskPath) for the record of the service, with the
\* folder roots the collector computes from the settings
FolderCall ==
  /\ pc = "driver" /\ calls < 1
  /\ calls' = calls + 1
  /\ results' = Append(results,
       [taskPath |-> allTasks[1].path,
        passes   |-> isInConfiguredFolders(folderRootsOf(settings.folders),
                                           allTasks[1].path)])
  /\ UNCHANGED <<second, envVars, cfgVars, runVars, sync, modifyLog, readLog, scan>>

NextFolders == FolderCall

SpecFolders == InitFolders /\ [][NextFolders]_vars

\* ------------------------------------------------ normalizeBlockId called alone

\* characters of the inputs: the marker, white space, characters of a token
\* and one that no token holds
NormalizeChars == {"^", SP, "a", "-", "!"}

\* inputs: nothing, numbers, an object, and every string of up to MaxChars
\* of these characters
NormalizeInputs ==
  {Absent, Num(0), Num(7), Num(42), AnObject} \cup SeqsUpTo(NormalizeChars, MaxChars)

InitNormalize ==
  /\ InitCommon
  /\ pc = "driver"
  /\ activeFile = FA
  /\ editorText = ContentA
  /\ cursor = [line |-> 0, ch |-> 0]
  /\ tasksApi = TRUE
  /\ \E raw \in NormalizeInputs : allTasks = <<Rec(FB, Num(0), raw, FALSE)>>
  /\ settings = [folders |-> <<>>, openaiApiKey |-> <<"s", "k">>,
                 prioritiesHeading |-> <<"P">>]

\* normalizeBlockId(task?.blockLink), and normalizeBlockId of what it returned
NormalizeCall ==
  /\ pc = "driver" /\ calls < 1
  /\ calls' = calls + 1
  /\ LET raw == allTasks[1].blockLink
     IN  results' = Append(results,
           [raw   |-> raw,
            once  |-> normalizeBlockId(raw),
            twice |-> normalizeBlockId(normalizeBlockId(raw))])
  /\ UNCHANGED <<second, envVars, cfgVars, runVars, sync, modifyLog, readLog, scan>>

NextNormalize == NormalizeCall

SpecNormalize == InitNormalize /\ [][NextNormalize]_vars

\* ------------------------------ the collectors on every anchor-token field value

\* the task-indexing service lists one open task of W/b.md whose anchor-token
\* field holds any of the inputs of normalizeBlockId
InitIds ==
  /\ InitCommon
  /\ pc = "driver"
  /\ activeFile = FA
  /\ editorText = ContentA
  /\ cursor = [line |-> 0, ch |-> 0]
  /\ tasksApi = TRUE
  /\ \E raw \in NormalizeInputs : allTasks = <<Rec(FB, Num(0), raw, FALSE)>>
  /\ settings = [folders |-> <<<<"W">>>>, openaiApiKey |-> <<"s", "k">>,
                 prioritiesHeading |-> <<"P">>]

SpecIds == InitIds /\ [][NextCollect]_vars

\* ------------------------------------------------ the ranking adapter's slice

\* counts the prompt resolves with: Math.floor of any finite number >= 1,
\* among them 1, 2, 3, 2^31 - 1, 2^31, 2^32 + 1 and 2^32 + 2^31
RankCounts ==
  {Wide(0, 1), Wide(0, 2), Wide(0, 3),
   Wide(HalfWord \div 2 - 1, HalfWord - 1), Wide(HalfWord \div 2, 0),
   Wide(HalfWord, 1), Wide(HalfWord + HalfWord \div 2, 0)}

\* ids of a response: strings and a number
RankIds == {<<"t", "-", "a">>, <<"z">>, Num(7)}

\* the response lists of up to MaxChars ids
RankAnswers ==
  {[ok |-> TRUE, errorText |-> "", content |-> <<JsonText(Ranked(q))>>,
    received |-> TRUE] : q \in SeqsUpTo(RankIds, MaxChars)}

\* callOpenAIRank is about to parse a response for a count
InitRank ==
  /\ vault = [p \in Files |->
                IF p = FA THEN ContentA ELSE IF p = FB THEN ContentB ELSE ContentC]
  /\ cache = [p \in Files |-> existingIdsOf(SplitLF(vault[p]))]
  /\ pc = "driver"
  /\ activeFile = FA
  /\ editorText = ContentA
  /\ cursor = [line |-> 0, ch |-> 0]
  /\ tasksApi = TRUE
  /\ allTasks = <<>>
  /\ settings = [folders |-> <<>>, openaiApiKey |-> <<"s", "k">>,
                 prioritiesHeading |-> <<"P">>]
  /\ edits = 0
  /\ savedCursor = [line |-> 0, ch |-> 0]
  /\ initialContent = <<>>
  /\ taskCount \in RankCounts
  /\ queue = <<>>
  /\ taskItems = <<>>
  /\ sync = SyncIdle
  /\ priorities = <<>>
  /\ response \in RankAnswers
  /\ rankedIds = <<>>
  /\ taskEmbeds = <<>>
  /\ notices = <<>>
  /\ modifyLog = <<>>
  /\ readLog = <<>>
  /\ queried = FALSE
  /\ fetches = 0
  /\ inserts = <<>>
  /\ thrown = <<>>
  /\ calls = 0
  /\ results = <<>>
  /\ scan = ScanIdle
  /\ second = Parked(2, IdleFrame, 0)

\* the parse and the slice of callOpenAIRank
RankerCall ==
  /\ pc = "driver" /\ calls < 1
  /\ calls' = calls + 1
  /\ rankedIds' = rankedIdsOf(response, taskCount)
  /\ results' = Append(results,
       [count    |-> taskCount,
        listed   |-> parsedOf(response.content).ids,
        returned |-> rankedIdsOf(response, taskCount)])
  /\ UNCHANGED <<second, envVars, cfgVars, pc, savedCursor, initialContent,
                 taskCount, queue, taskItems, sync, priorities, response,
                 taskEmbeds, notices, modifyLog, readLog, queried, fetches,
                 inserts, thrown, scan>>

NextRank == RankerCall

SpecRank == InitRank /\ [][NextRank]_vars

\* ------------------------------------------------- two runs of the command

\* positions at which a run has ended
Finished ==
  {"nofile", "cancelled", "notasks", "nopriorities", "nothing", "inserted",
   "error"}

\* the event loop resumes the other run: the run that was executing waits at
\* its await (or has ended), the parked run continues (or is invoked, when it
\* has not begun)
Switch ==
  /\ second.frame.pc \notin Finished
  /\ second.switches < MaxSwitches
  /\ second' = Parked(3 - second.run,
       Frame(pc, savedCursor, initialContent, taskCount, queue, taskItems,
             sync, priorities, response, rankedIds, taskEmbeds),
       second.switches + 1)
  /\ pc' = second.frame.pc
  /\ savedCursor' = second.frame.savedCursor
  /\ initialContent' = second.frame.initialContent
  /\ taskCount' = second.frame.taskCount
  /\ queue' = second.frame.queue
  /\ taskItems' = second.frame.taskItems
  /\ sync' = second.frame.sync
  /\ priorities' = second.frame.priorities
  /\ response' = second.frame.response
  /\ rankedIds' = second.frame.rankedIds
  /\ taskEmbeds' = second.frame.taskEmbeds
  /\ UNCHANGED <<envVars, cfgVars, notices, modifyLog, readLog, queried,
                 fetches, inserts, thrown, calls, results, scan>>

\* the command is invoked twice on the active document W/a.md; the service
\* lists the first task of X/c.md, which holds two tasks without tokens
InitOverlap ==
  /\ vault = [p \in Files |->
                IF p = FA THEN ContentA ELSE IF p = FB THEN ContentB ELSE ContentD]
  /\ cache = [p \in Files |-> existingIdsOf(SplitLF(vault[p]))]
  /\ InitFrames
  /\ pc = "idle"
  /\ activeFile = FA
  /\ editorText = ContentA
  /\ cursor = [line |-> 2, ch |-> 7]
  /\ tasksApi = TRUE
  /\ allTasks = <<RecFirst>>
  /\ settings = [folders |-> <<>>, openaiApiKey |-> <<"s", "k">>,
                 prioritiesHeading |-> <<"P">>]

\* answers of the ranking service to the two runs: an error, and rankings of
\* the tokens the synchronizer can generate
OverlapResponses ==
  {[ok |-> FALSE, errorText |-> "", content |-> <<>>, received |-> TRUE]}
  \cup {[ok |-> TRUE, errorText |-> "", content |-> <<JsonText(Ranked(<<c>>))>>,
         received |-> TRUE] : c \in Candidates}

\* fetch resolves with one of these answers
RankOverlap == RankResponseFrom(OverlapResponses)

NextOverlap ==
  \/ Start
  \/ PromptSubmit
  \/ CollectFilter
  \/ CollectCall
  \/ SyncRead
  \/ SyncWrite
  \/ waitForBlockIndexed
  \/ CollectPush
  \/ CollectReturn
  \/ ExtractDone
  \/ RankOverlap
  \/ EnvIndex
  \/ Switch

SpecOverlap == InitOverlap /\ [][NextOverlap]_vars

\* ------------------------------------------------------------------ claims

\* C1: for a task whose document is the active document the synchronizer
\* never calls vault.modify (no call at all is made with the active
\* document's path), the stored text of that document stays what it was
\* when the call began, and the token returned is one the call did not write.
C1_ActiveDocumentNotWritten ==
  /\ \A k \in 1..Len(modifyLog) : modifyLog[k].path # activeFile
  /\ \A i \in 1..Len(results) :
       (activeFile # NoFile /\ results[i].task.path = activeFile
        /\ results[i].done)
       => /\ results[i].via = "random"
          /\ results[i].token \in Candidates
          /\ vault[activeFile] = results[i].stored[activeFile]
          /\ (i = Len(results) => Len(modifyLog) = results[i].modifies)

\* C1 witness: a call for a task of the active document has returned, for a
\* line number past the end of the document
C1_Witness ==
  \E i \in 1..Len(results) :
    /\ results[i].done
    /\ results[i].task = RecPastEnd
    /\ activeFile = FB
    /\ results[i].via = "random"

\* C2: by either strategy, and for every folder setting, no task item a
\* collector holds or returns is located in the active document; a direct
\* scan calls neither vault.read nor vault.modify with the active document.
C2_ActiveDocumentExcluded ==
  /\ \A k \in 1..Len(taskItems) : taskItems[k].note # activeFile
  /\ \A i \in 1..Len(results) :
       /\ \A k \in 1..Len(results[i].items) : results[i].items[k].note # activeFile
       /\ results[i].strategy = "direct" =>
            /\ activeFile \notin results[i].read \cup results[i].written
            /\ ~results[i].done =>
                 activeFile \notin readSince(results[i].reads)
                                     \cup writtenSince(results[i].writes)

\* C2 witness: with the folder of the active document configured, and a task
\* of the active document among the service's records, both strategies have
\* returned tasks
C2_Witness ==
  /\ activeFile = FA
  /\ settings.folders = <<<<SP, "/", "W", "/">>, <<"/">>>>
  /\ \E k \in 1..Len(allTasks) : allTasks[k] = RecActive
  /\ \E i, j \in 1..Len(results) :
       /\ results[i].strategy = "indexed" /\ results[j].strategy = "direct"
       /\ results[i].done /\ results[j].done
       /\ results[i].items # <<>> /\ results[j].items # <<>>

\* C11: with no credential configured the ranking adapter raises its error
\* when it is called, and no request is ever sent.
C11_NoCredentialNoRequest ==
  /\ [](settings.openaiApiKey = <<>> =>
          fetches = 0 /\ ~response.received /\ pc # "rank")
  /\ [][(/\ pc = "extract" /\ settings.openaiApiKey = <<>>
         /\ Trim(priorities') # <<>>)
        => /\ pc' = "error"
           /\ thrown' = Append(thrown, "OpenAI API key is not set.")
           /\ fetches' = fetches]_vars

\* C11 witness: a run with priorities and no credential ended in the handler
\* with no request sent
C11_Witness ==
  /\ pc = "error"
  /\ settings.openaiApiKey = <<>>
  /\ Trim(priorities) # <<>>
  /\ thrown = <<"OpenAI API key is not set.">>
  /\ fetches = 0

\* C12: a success response whose content is no JSON (bare or in a json
\* fence), or is JSON without an array ranked_task_ids, gives the empty
\* ranking and no exception, and the run ends with nothing to insert.
C12_UnparsableIsEmptyRanking ==
  (response.received /\ response.ok /\ response.content \in Unranked)
    => /\ rankedIds = <<>>
       /\ pc = "nothing"
       /\ thrown = <<>>
       /\ inserts = <<>>
       /\ notices[Len(notices)] = Info("No tasks returned")

\* C12 witness: the content was a ranking in a fence of another language
C12_Witness ==
  /\ pc = "nothing"
  /\ response.received
  /\ response.content =
       <<FENCE, TEXT, WS, JsonText(Ranked(<<<<"t", "-", "a">>>>)), WS, FENCE>>

\* the line a task reference points at in the stored documents `store`, or
\* <<>> when the reference has no line in a document
lineOfTask(task, store) ==
  IF task.path = Absent \/ task.line = Absent THEN <<>>
  ELSE IF task.path \notin DOMAIN store THEN <<>>
  ELSE LET lines == SplitCRLF(store[task.path])
       IN  lines[Min(Max(0, task.line[2]), Max(0, Len(lines) - 1)) + 1]

\* two calls of the synchronizer that returned, the second on the task
\* reference of the first and finding a token on the task's line
Rerun(i, j) ==
  /\ i < j
  /\ results[i].done /\ results[j].done
  /\ results[i].via # "threw" /\ results[j].via # "threw"
  /\ results[i].task = results[j].task
  /\ blockIdMatch(lineOfTask(results[j].task, results[j].stored)) # <<>>

\* C13 as stated: a second call on the same task reference, whose line
\* carries a token after the first, returns the first call's token and writes
\* nothing.
C13_Original_SecondRunSameToken ==
  \A i, j \in 1..Len(results) :
    Rerun(i, j) =>
      /\ results[j].token = results[i].token
      /\ (j = Len(results) => Len(modifyLog) = results[j].modifies)

\* C13 as amended: the same, for a task whose document is not the active
\* document or which carries a block link; for a task of the active document
\* without a link both calls return freshly drawn tokens and write nothing.
C13_SecondRunSameTokenInBackground ==
  \A i, j \in 1..Len(results) :
    Rerun(i, j) =>
      /\ (j = Len(results) => Len(modifyLog) = results[j].modifies)
      /\ (results[j].task.path # activeFile
          \/ normalizeBlockId(results[j].task.blockLink) # <<>>)
           => results[j].token = results[i].token
      /\ (results[j].task.path = activeFile
          /\ normalizeBlockId(results[j].task.blockLink) = <<>>)
           => results[i].via = "random" /\ results[j].via = "random"

\* C13 witness: the first call generated and wrote a token, the second call
\* on the same reference returned it from the line
C13_Witness ==
  /\ Len(results) = 2
  /\ Rerun(1, 2)
  /\ results[1].via = "generated" /\ results[2].via = "line"
  /\ results[1].token = results[2].token
  /\ Len(modifyLog) = 1

\* tokens at the ends of the lines of a text, line by line (<<>> for none)
lineTokens(text) ==
  LET lines == SplitLF(text)
  IN  [i \in 1..Len(lines) |-> blockIdMatch(lines[i])]

\* no token ends two lines of the text
tokensDistinct(text) ==
  LET tokens == lineTokens(text)
  IN  \A i, j \in 1..Len(tokens) :
        (i # j /\ tokens[i] # <<>>) => tokens[i] # tokens[j]

\* C14: a token the synchronizer or the direct scan generates for a document
\* is none of the tokens the document holds, and the tokens generated for one
\* document differ from each other: no stored document, and no text handed
\* to vault.modify, carries one token on two lines.
C14_GeneratedTokensFresh ==
  /\ \A p \in Files : tokensDistinct(vault[p])
  /\ \A k \in 1..Len(modifyLog) : tokensDistinct(modifyLog[k].content)
  /\ sync.pc = "write" =>
       /\ sync.token \notin existingIdsOf(SplitLF(vault[sync.path]))
       /\ tokensDistinct(sync.pending)
  /\ scan.pc = "modify" =>
       /\ \A k \in 1..Len(scan.tasks) :
            scan.tasks[k].via = "generated" =>
              scan.tasks[k].id \notin existingIdsOf(SplitLF(vault[scan.file]))
       /\ tokensDistinct(scan.content)

\* C14 witness: the synchronizer gave the first line of X/c.md a token, then
\* the direct scan gave its second line and the first line of W/b.md one
C14_Witness ==
  /\ Len(results) = 2
  /\ results[1].strategy = "indexed" /\ results[2].strategy = "direct"
  /\ results[2].done
  /\ allTasks = <<RecFirst>>
  /\ Len(modifyLog) = 3
  /\ \A i \in 1..2 : lineTokens(vault[FC])[i] # <<>>
  /\ lineTokens(vault[FB])[1] # <<>>

\* the task item's token ends a line of the stored text of its document
storedIn(item, store) ==
  /\ item.note \in DOMAIN store
  /\ item.id \in existingIdsOf(SplitLF(store[item.note]))

\* the items of a sequence whose token was generated for, or found on, a line
\* of their document are all stored
persistedItemsStored(items) ==
  \A k \in 1..Len(items) :
    items[k].via \in {"generated", "line"} => storedIn(items[k], vault)

\* C15: generation and the write of a document are complete before the
\* document's tasks are reported: every task item a collector has gathered or
\* returned whose token was generated for, or read from, a line of its
\* document carries a token the stored text of that document holds.
C15_ReportedTokensStored ==
  /\ persistedItemsStored(taskItems)
  /\ \A i \in 1..Len(results) : persistedItemsStored(results[i].items)

\* C15 witness: each collector returned a task of W/b.md whose token it
\* generated and wrote
C15_Witness ==
  /\ Len(results) = 2
  /\ results[1].strategy = "indexed" /\ results[2].strategy = "direct"
  /\ results[2].done
  /\ \E k \in 1..Len(results[1].items) :
       results[1].items[k].via = "generated" /\ results[1].items[k].note = FB
  /\ \E k \in 1..Len(results[2].items) :
       results[2].items[k].via = "generated"
  /\ Len(modifyLog) >= 2

\* the lines of a text that are headings matching the desired heading
matchingHeadings(lines, desired) ==
  { i \in 1..Len(lines) :
      /\ headingDepth(lines[i]) # 0
      /\ normalizeHeadingText(headingTextOf(lines[i])) = normalizeHeadingText(desired) }

\* the lines after line `start` that end its section: a horizontal rule, or a
\* heading as deep as or less deep than the heading on line `start`
terminatorsAfter(lines, start) ==
  { j \in (start + 1)..Len(lines) :
      \/ isHorizontalRule(lines[j])
      \/ headingDepth(lines[j]) # 0
         /\ headingDepth(lines[j]) <= headingDepth(lines[start]) }

\* the least element of a non-empty set of numbers
Least(S) == CHOOSE i \in S : \A k \in S : i <= k

\* the section of the desired heading, said without loops: the lines strictly
\* between the first matching heading and the first terminator after it,
\* from the first to the last of them that is not blank
sectionOf(content, desired) ==
  LET lines == SplitCRLF(content)
      heads == matchingHeadings(lines, desired)
  IN  IF heads = {} THEN <<>>
      ELSE LET start  == Least(heads)
               ends   == terminatorsAfter(lines, start)
               stop   == IF ends = {} THEN Len(lines) + 1 ELSE Least(ends)
               filled == { j \in (start + 1)..(stop - 1) : Trim(lines[j]) # <<>> }
           IN  IF filled = {} THEN <<>>
               ELSE Join(SubSeq(lines, Least(filled),
                                CHOOSE j \in filled : \A k \in filled : k <= j))

\* C16: the extractor returns the lines strictly after the first heading
\* whose normalized text equals the normalized desired heading and strictly
\* before the first terminator, without the leading and trailing blank lines
\* and with the interior blank lines and deeper headings; the empty string
\* when no heading matches.
C16_ExtractionIsTheSection ==
  calls = 1 =>
    /\ priorities = sectionOf(vault[activeFile], settings.prioritiesHeading)
    /\ matchingHeadings(SplitCRLF(vault[activeFile]), settings.prioritiesHeading) = {}
         => priorities = <<>>

\* C16 witness: a section with a deeper heading and a blank line inside
C16_Witness ==
  /\ calls = 1
  /\ settings.prioritiesHeading = <<"P">>
  /\ vault[activeFile] = Join(<<<<"#", "#", SP, "P">>, <<"#", "#", "#", SP, "R">>,
                                <<>>, BodyX>>)
  /\ priorities = Join(<<<<"#", "#", "#", SP, "R">>, <<>>, BodyX>>)

\* C17 as stated: for the desired heading "Next Week Priorities" the
\* extractor finds the section under the heading of a document that reads
\* "<target emoji> Next Week's Priorities".
C17_Original_NextWeekSectionFound ==
  (/\ calls = 1
   /\ settings.prioritiesHeading = DesiredNextWeek
   /\ vault[activeFile] = Join(<<<<"#", "#", SP>> \o HeadingNextWeek, BodyX>>))
    => priorities = BodyX

\* a flag of the record is true
flagSignal(task) ==
  TRUE \in {task.done, task.completed, task.isDone, task.statusDone,
            task.statusIsDone}

\* a completion date of the record is a non-empty string
dateSignal(task) ==
  \E date \in {task.doneDate, task.completedDate, task.completionDate} :
    date \notin {Absent, <<>>}

\* the status holds one of the words, in any case, or one of the symbols
namedStatus(status) ==
  \/ \E word \in { <<"d", "o", "n", "e">>,
                    <<"c", "o", "m", "p", "l", "e", "t", "e", "d">>,
                    <<"c", "o", "m", "p", "l", "e", "t", "e">>,
                    <<"c", "a", "n", "c", "e", "l">> } :
        Contains(toLowerCase(status), word)
  \/ \E i \in 1..Len(status) : status[i] \in {TRASH, CHECKMARK, HEAVYCHECK}

\* the status holds an x or X that no letter, digit or underscore follows
crossStatus(status) ==
  \E i \in 1..Len(status) :
    /\ status[i] \in {"x", "X"}
    /\ i < Len(status) => ~IsWordChar(status[i + 1])

\* C18 as stated: a record is classified completed exactly when a flag is
\* true, a completion date is non-empty, or the status holds done, completed,
\* complete, cancel or a checkmark or trash symbol.
C18_Original_CompletedIffStatedSignal ==
  \A i \in 1..Len(results) :
    results[i].completed <=>
      \/ flagSignal(results[i].task)
      \/ dateSignal(results[i].task)
      \/ namedStatus(results[i].task.status)

\* C18 as amended: the same with a fourth alternative of the status pattern,
\* an x before a word boundary; a record with a doneDate is completed whatever
\* its status, a record with no signal is open.
C18_CompletedIffSignal ==
  \A i \in 1..Len(results) :
    LET task == results[i].task
    IN  /\ results[i].completed <=>
              \/ flagSignal(task)
              \/ dateSignal(task)
              \/ namedStatus(task.status)
              \/ crossStatus(task.status)
        /\ task.doneDate = ADate => results[i].completed
        /\ (~flagSignal(task) /\ ~dateSignal(task) /\ ~namedStatus(task.status)
             /\ ~crossStatus(task.status)) => ~results[i].completed

\* C18 witness: a record with a doneDate, no flag and the status "Todo" was
\* classified completed
C18_Witness ==
  /\ Len(results) = 1
  /\ results[1].task.doneDate = ADate
  /\ results[1].task.status = <<"T", "o", "d", "o">>
  /\ ~flagSignal(results[1].task)
  /\ results[1].completed

\* the configured roots: the folder entries of the settings, trimmed and
\* without slashes at their ends, that are not empty
configuredRoots ==
  { normalizeFolder(settings.folders[i]) : i \in 1..Len(settings.folders) } \ {<<>>}

\* the path is the root followed by "/" and anything
isUnder(path, root) ==
  /\ Len(path) > Len(root)
  /\ \A k \in 1..Len(root) : path[k] = root[k]
  /\ path[Len(root) + 1] = "/"

\* C19: a task passes the folder filter exactly when no folder root is
\* configured, or its path is a configured root, or its path starts with a
\* configured root followed by "/"; with the root "Work" the path
\* "Workshop/a.md" does not pass.
C19_FolderFilterByRoot ==
  \A i \in 1..Len(results) :
    /\ results[i].passes <=>
          \/ configuredRoots = {}
          \/ results[i].taskPath \in configuredRoots
          \/ \E root \in configuredRoots : isUnder(results[i].taskPath, root)
    /\ (/\ configuredRoots = {<<"W", "o", "r", "k">>}
        /\ results[i].taskPath =
             <<"W", "o", "r", "k", "s", "h", "o", "p", "/", "a", ".", "m", "d">>)
         => ~results[i].passes

\* C19 witness: with the one root "Work" the filter was applied to
\* "Workshop/a.md"
C19_Witness ==
  /\ Len(results) = 1
  /\ settings.folders = <<<<SP, "/", "W", "o", "r", "k", "/", "/", SP>>>>
  /\ results[1].taskPath =
       <<"W", "o", "r", "k", "s", "h", "o", "p", "/", "a", ".", "m", "d">>
  /\ ~results[1].passes

\* the input is a string of the model (no number, no object, not absent)
isText(raw) == raw \in SeqsUpTo(NormalizeChars, MaxChars)

\* the input is no token: it is no string, or a string with a character that
\* is neither of the token alphabet nor the marker nor white space
invalidInput(raw) ==
  \/ raw # Absent /\ ~isText(raw)
  \/ isText(raw) /\ \E k \in 1..Len(raw) : ~IsIdChar(raw[k]) /\ raw[k] \notin {"^", SP}

\* normalize is idempotent and its result begins with neither the marker nor
\* white space
idempotentAndBare(call) ==
  /\ call.twice = call.once
  /\ call.once # <<>> => call.once[1] \notin {"^", SP, TAB, NL, CR}

tokenedLinesKept ==
  \A i \in 1..Len(results) : \A p \in Files :
    LET before == SplitCRLF(results[i].stored[p])
        after  == SplitCRLF(vault[p])
    IN  /\ Len(after) = Len(before)
        /\ \A k \in 1..Len(before) :
             blockIdMatch(before[k]) # <<>> => after[k] = before[k]

\* the token the call returned ends a line of the task's document that is not
\* the line the task reference names
tokenOnOtherLine(call) ==
  LET lines == SplitCRLF(vault[call.task.path])
  IN  \E k \in 1..Len(lines) :
        /\ k - 1 # call.task.line[2]
        /\ blockIdMatch(lines[k]) = call.token

\* C21 as stated: the synchronizer never rewrites a line that ends with a
\* token, and the token it reads from or writes to a document for a task is
\* on no line but the one the task reference names, whatever line number the
\* reference carries.
C21_Original_TokenOfOwnLine ==
  /\ tokenedLinesKept
  /\ \A i \in 1..Len(results) :
       (results[i].done /\ results[i].via \in {"line", "generated"})
         => ~tokenOnOtherLine(results[i])

\* the synchronizer frame of run r, executing or parked
syncOf(r) == IF second.run = r THEN second.frame.sync ELSE sync

\* the text a cycle standing at vault.modify would write had it read the
\* document as it is stored now
rewritten(frame) ==
  LET lines     == SplitCRLF(vault[frame.path])
      lineIndex == Min(Max(0, frame.lineNumber), Max(0, Len(lines) - 1))
  IN  Join([lines EXCEPT ![lineIndex + 1] =
              appendToken(lines[lineIndex + 1], frame.token)])

\* a cycle between its read and its write whose document was written since
\* the read
stale(frame) == frame.pc = "write" /\ frame.pending # rewritten(frame)

\* the tokens ending the lines of a text
tokensOf(content) == existingIdsOf(SplitCRLF(content))

\* every token a write put into a document is in the stored document
noTokenLost ==
  \A k \in 1..Len(modifyLog) :
    tokensOf(modifyLog[k].content) \subseteq tokensOf(vault[modifyLog[k].path])

laterWriteReplaces ==
  \A k \in 1..Len(modifyLog) : \A j \in (k + 1)..Len(modifyLog) :
    (modifyLog[j].path = modifyLog[k].path
     /\ modifyLog[j].content # modifyLog[k].content)
      => ~(tokensOf(modifyLog[k].content) \subseteq tokensOf(modifyLog[j].content))

\* a cycle of run r becomes stale only while r waits and the other run writes
staleByOtherRun ==
  \A r \in {1, 2} :
    (~stale(syncOf(r)) /\ stale(syncOf(r))')
      => (second.run = r /\ second'.run = r /\ vault' # vault)

\* the write of a cycle that is not stale keeps every token written before
keptByIntactWrite ==
  (sync.pc = "write" /\ ~stale(sync) /\ modifyLog' # modifyLog /\ noTokenLost)
    => \A k \in 1..Len(modifyLog) :
         modifyLog[k].path = sync.path
           => tokensOf(modifyLog[k].content) \subseteq tokensOf(sync.pending)

bothFinished == pc \in Finished /\ second.frame.pc \in Finished

restorationStep == pc = "loop" /\ pc' \in {"extract", "notasks"}

\* the executing run inserts its embeds
insertionStep == pc = "rank" /\ pc' = "inserted"

MaxPolls == GenerateTimeout \div PollInterval

\* the poll loop has slept a whole number of intervals, and no more than its
\* timeout allows
pollsBounded ==
  sync.pc = "wait" =>
    /\ sync.timeout \in {ReuseTimeout, GenerateTimeout}
    /\ sync.elapsed % PollInterval = 0
    /\ sync.elapsed <= sync.timeout
    /\ sync.elapsed \div PollInterval <= MaxPolls

\* when the line read has no token, the draw of the Generate step has a
\* candidate to accept
drawEnds ==
  (sync.pc = "read" /\ sync.path \in DOMAIN vault) =>
    LET lines     == SplitCRLF(vault[sync.path])
        lineIndex == Min(Max(0, sync.lineNumber), Max(0, Len(lines) - 1))
    IN  \/ blockIdMatch(lines[lineIndex + 1]) # <<>>
        \/ freshCandidates(existingIdsOf(lines)) # {}

\* the poll loop ends by returning the token it waited for
timeoutNotFatal ==
  (sync.pc = "wait" /\ sync'.pc # "wait") =>
    /\ sync'.pc = "ret"
    /\ sync'.token = sync.token
    /\ sync'.token # <<>>

\* C23: the synchronizer terminates even if the index never lists the token.
\* The poll loop sleeps a fixed interval at most timeout / interval times, it
\* ends by returning the token whether or not the index listed it, the draw
\* of the Generate step always has a fresh candidate, and every call that
\* reached its read ends: by returning a token once it polls, and otherwise
\* by returning or by the exception of a rejected read or write.
C23_SynchronizerTerminates ==
  /\ [](pollsBounded /\ drawEnds)
  /\ [][timeoutNotFatal]_vars
  /\ (sync.pc = "wait") ~> (sync.pc = "ret")
  /\ (sync.pc \in {"read", "write"}) ~> (sync.pc \in {"ret", "threw"})

\* C23 witness: a call generated a token, wrote it and returned it although
\* the index does not list it
C23_Witness ==
  \E i \in 1..Len(results) :
    /\ results[i].done
    /\ results[i].via = "generated"
    /\ results[i].token \notin cache[results[i].task.path]
    /\ results[i].token \in tokensOf(vault[results[i].task.path])

\* min(count, n) for a length n below 2^16
minOf(count, n) == IF count[2] > 0 THEN n ELSE Min(count[3], n)

\* for a count below 2^31 the adapter returns the first min(count, n) ids as
\* strings, and for every count it returns a prefix of the list of no more
\* than count ids
firstIdsBelowTwo31 ==
  \A i \in 1..Len(results) :
    LET call == results[i]
        n    == Len(call.listed)
        k    == minOf(call.count, n)
    IN  /\ Len(call.returned) <= k
        /\ \A j \in 1..Len(call.returned) :
             call.returned[j] = toStringOf(call.listed[j])
        /\ call.count[2] < HalfWord \div 2 => Len(call.returned) = k

\* C24 as stated: for every count the prompt can produce, 2^31 and above
\* included, and every response list of length n, the adapter returns exactly
\* the first min(count, n) ids of the response, in response order, each
\* coerced to a string.
C24_Original_FirstMinCountIds ==
  \A i \in 1..Len(results) :
    LET call == results[i]
        n    == Len(call.listed)
        k    == minOf(call.count, n)
    IN  /\ Len(call.returned) = k
        /\ \A j \in 1..k : call.returned[j] = toStringOf(call.listed[j])

\* the run is past a restoration that put the snapshot back: the editor's
\* text was changed while the run awaited, and it is the snapshot again
restoredSnapshot == edits >= 1 /\ editorText = initialContent

\* C25 as stated: whenever the supervisor restored the snapshot after
\* collection, the text the priority extractor reads, which is the stored text
\* of the target document while the read is pending, equals the snapshot.
C25_Original_ExtractsFromSnapshot ==
  (pc = "extract" /\ restoredSnapshot) => vault[activeFile] = initialContent

\* positions of the run during the collection phase
Collecting == {"getTasks", "loop"}

\* C26 as stated: whenever the collection phase ends, by the collector's
\* return or by an exception, the editor's text is the snapshot, so a mutation
\* made during collection does not outlast the phase and a run that ends
\* there without inserting leaves the snapshot.
C26_Original_RevertedOnEveryExit ==
  [][(pc \in Collecting /\ pc' \notin Collecting)
       => editorText' = initialContent]_vars

\* the line is its former text with trailing white space trimmed, followed
\* by two spaces, the marker and a token
generatedLine(former, line) ==
  \E c \in Candidates : line = TrimEnd(former) \o <<SP, SP, "^">> \o c

\* the text `after` is the text `before` but for the lines `targets`, which
\* were given a token
onlyTargetsChanged(before, after, targets) ==
  \E B \in {SplitLF(before)} : \E A \in {SplitLF(after)} :
    /\ Len(A) = Len(B)
    /\ \A i \in 1..Len(B) :
         IF i \in targets THEN generatedLine(B[i], A[i]) ELSE A[i] = B[i]

\* the write the synchronizer is about to make changes only the task's line
syncWriteFramed ==
  sync.pc = "write" =>
    onlyTargetsChanged(vault[sync.path], sync.pending,
      {Min(Max(0, sync.lineNumber),
           Max(0, Len(SplitLF(vault[sync.path])) - 1)) + 1})

\* the write the direct scan is about to make changes only the lines of
\* open tasks without a token
scanWriteFramed ==
  scan.pc = "modify" =>
    onlyTargetsChanged(vault[scan.file], scan.content,
      needsToken(SplitLF(vault[scan.file])))

\* C28 as stated: the Generate step changes only the target line. The
\* document about to be stored equals the document read, except that the
\* target line is its former text with trailing white space trimmed followed
\* by two spaces, the marker and the new token; the number of lines and every
\* other line are unchanged. This for the synchronizer and for the direct scan.
C28_Original_OnlyTargetLineChanged == syncWriteFramed /\ scanWriteFramed

\* number of vault.read calls for the document p since the log had n entries
readsOf(p, n) == Cardinality({ k \in (n + 1)..Len(readLog) : readLog[k] = p })

\* number of vault.modify calls for the document p since the log had n entries
writesOf(p, n) ==
  Cardinality({ k \in (n + 1)..Len(modifyLog) : modifyLog[k].path = p })

\* C29: in the direct scan every document is written at most once per scan of
\* it (no more writes than reads, and none while a scan of it is at its read
\* or has still to write), the text written is the result of the whole loop
\* over the lines, in which no open task is left without a token, and a
\* document whose open tasks all carry a token is not written.
C29_DirectScanWritesOncePerDocument ==
  pc = "direct" =>
    LET call == results[Len(results)]
    IN  /\ \A p \in Files :
             writesOf(p, call.writes) + (IF scan.pc \in {"read", "modify"} /\ scan.file = p
                                         THEN 1 ELSE 0)
               <= readsOf(p, call.reads)
        /\ \A k \in (call.writes + 1)..Len(modifyLog) :
             needsToken(SplitLF(modifyLog[k].content)) = {}
        /\ scan.pc = "modify" =>
             /\ needsToken(SplitLF(vault[scan.file])) # {}
             /\ needsToken(SplitLF(scan.content)) = {}

\* C29 witness: a first scan wrote W/b.md and X/c.md, and a second scan read
\* both, found every open task with a token and wrote neither
C29_Witness ==
  /\ Len(results) = 2
  /\ results[1].strategy = "direct" /\ results[1].done
  /\ results[2].strategy = "direct" /\ results[2].done
  /\ results[1].written = {FB, FC}
  /\ results[2].read = {FB, FC}
  /\ results[2].written = {}
  /\ Len(modifyLog) = 2

\* canonical form: a non-empty string of [A-Za-z0-9\-_]
isCanonical(id) == id # <<>> /\ \A k \in 1..Len(id) : IsIdChar(id[k])

\* the ids the collector did not take from the anchor-token field of a task
\* record (drawn, or found at the end of a line) are canonical
ownIdsCanonical ==
  \A i \in 1..Len(results) : \A k \in 1..Len(results[i].items) :
    results[i].items[k].via # "existing" => isCanonical(results[i].items[k].id)

\* C30 as stated: every TaskItem the collector returns has an id in canonical
\* form, a non-empty string of alphanumeric, hyphen or underscore characters,
\* for every value of the anchor-token field of the task record.
C30_Original_IdsCanonical ==
  \A i \in 1..Len(results) : \A k \in 1..Len(results[i].items) :
    isCanonical(results[i].items[k].id)

\* C3: the step that takes the run past collection leaves the editor's text
\* equal to the snapshot taken before the prompt, whatever happened to the
\* text during collection.
C3_RestoredPastCollection ==
  [][(pc = "loop" /\ pc' \in {"extract", "notasks"})
       => editorText' = initialContent]_vars

\* C3 witness: the run is past collection, the editor was edited during it,
\* and the editor holds the snapshot again
C3_Witness ==
  /\ pc = "extract"
  /\ edits = 1
  /\ editorText = initialContent
  /\ Len(modifyLog) > 0

\* the position a saved cursor stands for in a text: its line brought into
\* the text's lines, its column into that line
ClampInto(text, saved) ==
  LET lines == SplitLF(text)
      l     == IF saved.line < 0 THEN 0
               ELSE IF saved.line > Len(lines) - 1 THEN Len(lines) - 1
               ELSE saved.line
      c     == IF saved.ch < 0 THEN 0
               ELSE IF saved.ch > Len(lines[l + 1]) THEN Len(lines[l + 1])
               ELSE saved.ch
  IN  [line |-> l, ch |-> c]

\* C4 as stated: the position handed to replaceRange is the saved cursor.
C4_Original_InsertAtSavedCursor ==
  \A i \in 1..Len(inserts) : inserts[i].pos = savedCursor

\* C4 as amended: the position handed to replaceRange is the saved cursor
\* brought into the bounds of the text as it is when the insertion is made;
\* it is the saved cursor itself whenever that still lies in the text, and
\* the cursor's position at insertion time plays no part.
C4_InsertAtSavedCursorClamped ==
  \A i \in 1..Len(inserts) :
    /\ inserts[i].pos = ClampInto(inserts[i].before, savedCursor)
    /\ (inserts[i].before = initialContent => inserts[i].pos = savedCursor)

\* C4 witness: an insertion was made at the saved cursor while the cursor
\* stood elsewhere
C4_Witness ==
  /\ pc = "inserted"
  /\ inserts[1].at # savedCursor
  /\ inserts[1].pos = savedCursor

\* C5: a run inserts at most once; once exactly when the surviving embed
\* list is not empty, and never on a path that ends the run early.
C5_AtMostOneInsertion ==
  /\ Len(inserts) <= 1
  /\ (Len(inserts) = 1) <=> (pc = "inserted")
  /\ pc = "inserted" => /\ Len(taskEmbeds) > 0
                        /\ inserts[1].text = embedLines(taskEmbeds)
  /\ pc = "nothing" => Len(taskEmbeds) = 0
  /\ pc \in {"nofile", "cancelled", "notasks", "nopriorities", "nothing", "error"}
       => inserts = <<>>

\* C5 witness: a run ended with one insertion of two embeds
C5_Witness ==
  /\ pc = "inserted"
  /\ Len(taskEmbeds) = 2
  /\ Len(inserts) = 1

\* C6 as stated: every embed inserted names an anchor the background index
\* lists in that document when the insertion is made.
C6_Original_EmbedsIndexed ==
  pc = "inserted" =>
    \A k \in 1..Len(taskEmbeds) :
      /\ taskEmbeds[k].note \in DOMAIN inserts[1].index
      /\ taskEmbeds[k].id \in inserts[1].index[taskEmbeds[k].note]

\* ids of the collected tasks
collectedIds == { taskItems[i].id : i \in 1..Len(taskItems) }

\* rankedIds, each normalized
normalizedRanked == [i \in 1..Len(rankedIds) |-> normalizeBlockId(rankedIds[i])]

\* ids of taskEmbeds
embedIds == [k \in 1..Len(taskEmbeds) |-> taskEmbeds[k].id]

\* C7 as stated: the embeds are the ranked ids that are ids of collected
\* tasks, in ranking order.
C7_Original_EmbedsAreKnownRanked ==
  pc \in {"nothing", "inserted"} =>
    embedIds = SelectSeq(normalizedRanked, LAMBDA id : id \in collectedIds)

\* the document of the last collected task with this id
noteOf(id) ==
  taskItems[CHOOSE i \in 1..Len(taskItems) :
              /\ taskItems[i].id = id
              /\ \A j \in 1..Len(taskItems) : taskItems[j].id = id => j <= i].note

\* C7 as amended: the embeds are the ranked ids, normalized, that are ids of
\* collected tasks and whose anchor the index lists in the task's document
\* when the embed list is built (or whose document is no file of the vault),
\* in ranking order; an id of no collected task yields no embed.
C7_EmbedsAreKnownIndexedRanked ==
  [][(pc = "rank" /\ pc' \in {"nothing", "inserted"}) =>
       /\ embedIds' = SelectSeq(normalizedRanked',
            LAMBDA id : /\ id \in collectedIds
                        /\ (noteOf(id) \in DOMAIN vault => id \in cache[noteOf(id)]))
       /\ \A k \in 1..Len(taskEmbeds') :
            /\ taskEmbeds'[k].id \in collectedIds
            /\ taskEmbeds'[k].note = noteOf(taskEmbeds'[k].id)]_vars

\* C7 witness: a ranking of an unknown id, then a known one: one embed
C7_Witness ==
  /\ pc = "inserted"
  /\ Len(rankedIds) = 2
  /\ normalizedRanked[1] \notin collectedIds
  /\ embedIds = <<normalizedRanked[2]>>

\* C8 as stated: the ids of the collected tasks are pairwise distinct.
C8_Original_IdsDistinct ==
  \A i, j \in 1..Len(taskItems) :
    i # j => taskItems[i].id # taskItems[j].id

\* documents as they are before the run
InitialVault ==
  [p \in Files |->
     IF p = FA THEN ContentA ELSE IF p = FB THEN ContentB ELSE ContentC]

\* C9: a cancelled prompt ends the run with nothing read, written, queried
\* or requested and no notice shown, and the step that ends it changes
\* neither the editor's text, nor the cursor, nor any stored document.
C9_CancelHasNoSideEffects ==
  /\ [](pc = "cancelled" =>
          /\ readLog = <<>> /\ modifyLog = <<>> /\ ~queried /\ fetches = 0
          /\ inserts = <<>> /\ notices = <<>> /\ thrown = <<>>
          /\ cache = [p \in Files |-> existingIdsOf(SplitLF(InitialVault[p]))]
          /\ \A p \in Files \ {activeFile} : vault[p] = InitialVault[p])
  /\ [][(pc = "prompt" /\ pc' = "cancelled") =>
          /\ editorText' = editorText /\ cursor' = cursor /\ vault' = vault]_vars

\* C9 witness: the prompt was cancelled after the user edited the text and
\* moved the cursor
C9_Witness ==
  /\ pc = "cancelled"
  /\ edits = 1
  /\ cursor # savedCursor

\* notices of the top-level handler
errorNotices == SelectSeq(notices, LAMBDA n : n.kind = "error")

====
